---- MODULE Spec2Model ----
(***************************************************************************)
(* A model of the synchronization core of the futures library:            *)
(*   - operation_state_base / operation_state / deferred_operation_state  *)
(*     (include/futures/detail/operation_state.hpp)                       *)
(*   - continuations_state / continuations_source                         *)
(*     (include/futures/detail/continuations_source.hpp)                  *)
(* Threads execute the member functions step by step; a step is the code  *)
(* between two points where another thread can observe or interfere (a    *)
(* region under waiters_mutex_ is one step, unlocked reads and writes are *)
(* steps of their own).                                                   *)
(***************************************************************************)
EXTENDS Naturals, Sequences, FiniteSets, TLC

\* ---------------------------------------------------------------- bounds
\* Operations started in one behaviour of the operation-state specification.
MaxOps == 3
\* Operations started in one behaviour of the continuation-list specification.
MaxContOps == 5
\* Continuations attached (push calls) in one behaviour.
MaxPush == 2

\* Futures in a range [first, last).
MaxInputs == 3

\* Elements of the range given to find_if_not.
MaxLen == 4

\* The threads of the operation-state specification, and the larger set used
\* when only the continuation list is exercised.
Threads == {"t1", "t2"}
AllThreads == {"t1", "t2", "t3"}
NoThread == "none"
Values == {"a", "b"}
Errors == {"err"}
Fns == 1..MaxPush

VARIABLES
    \* operation_state_base members
    status_,            \* enum status: deferred, launched, waiting, ready
    except_,            \* std::exception_ptr: "null" or an error
    external_waiters_,  \* waiter_list: the external condition variables, each
                        \* named by the thread that owns it
    waiters_mutex_,     \* owner of the mutex, or NoThread
    \* operation_state members
    storage,            \* operation_state_storage<R>: "empty" or a value
    \* continuations_state members
    run_requested_,     \* the fired latch
    continuations_,     \* the recorded callables, in order
    continuations_mutex_,
    \* condition variables
    notified,           \* threads blocked on waiter_ with a pending notify_all
    ext_notified,       \* external condition variables notified so far
    \* the environment: executor and construction options
    is_deferred,        \* the state was constructed deferred
    inline_task,        \* no executor (or an inline one): the task runs in post_deferred
    before_,            \* the parent future of a continuation task ("none": no parent)
    posted,             \* the deferred task sits in the executor
    exec_q,             \* callables submitted with execute(ex, fn) and not yet run
    budget,             \* operations the threads may start
    \* threads
    pc, op, arg, ret, ret_to, in_apply, handle, idx, last,
    \* history
    ops,                \* operations started
    writes,             \* writes of the outcome (value storage or exception slot)
    drains,             \* request_run calls that returned true
    launches,           \* post_deferred invocations
    task_runs,          \* invocations of the stored task
    task_out,           \* what the stored task returned or threw
    launched_by,        \* the member function that called post_deferred
    ran,                \* per callable: number of invocations
    pushed,             \* callables handed to push so far
    moved_from,         \* the state was the source of a move construction
    destroyed,          \* the continuations_state destructor has run
    \* algorithms over a range of futures
    inputs,             \* the futures in [first, last): "pending" or the outcome
    deadline,           \* the timeout of the timed waits has passed
    scan,               \* wait_for_all_for / _until: position, iterator, all_ready, result
    conts,              \* when_all / when_any: the continuation attached to each input
    agg,                \* when_all / when_any: the aggregate future's state
    \* destruction of a stoppable state
    is_stoppable,       \* Options::is_stoppable: the state holds a stop_source
    stop_requested,     \* request_stop() was called on the stop_source
    released,           \* the members (layout_: storage, stop_source, ...) are destroyed
    \* parallel algorithms
    find,               \* find_if_not: the range, the executor and iterator kinds, the call
    \* chains of continuations
    chain               \* the states p, q, r and the call stacks of the threads using them

opvars == <<status_, except_, external_waiters_, waiters_mutex_, storage>>
contvars == <<run_requested_, continuations_, continuations_mutex_, exec_q, ran, pushed>>
cvvars == <<notified, ext_notified>>
aggvars == <<conts, agg>>
rangevars == <<inputs, deadline, scan, aggvars>>
stopvars == <<is_stoppable, stop_requested, released>>
othervars == <<find, chain>>
envvars == <<is_deferred, inline_task, before_, budget, posted, rangevars, othervars,
             stopvars>>
thvars == <<pc, op, arg, ret, ret_to, in_apply, handle, idx, last>>
taskvars == <<task_runs, task_out, launched_by>>
histvars == <<ops, writes, drains, launches, task_runs, task_out, launched_by,
              moved_from, destroyed>>
vars == <<opvars, contvars, cvvars, envvars, thvars, histvars>>

Range(s) == {s[i] : i \in DOMAIN s}

\* A state without a stop_source, alive.
NotStoppable ==
    /\ is_stoppable = FALSE
    /\ stop_requested = FALSE
    /\ released = FALSE

\* find_if_not is not called.
NoFind == find = [input |-> <<>>, forward |-> TRUE, inline |-> TRUE, pc |-> "none",
                  middle |-> 0, path |-> "none", ret |-> 0]

\* No chain is in use.
NoChain ==
    chain = [st |-> <<>>, wm |-> <<>>, cm |-> <<>>, rr |-> <<>>, cl |-> <<>>,
             nt |-> <<>>, ex |-> {}, stack |-> <<>>, started |-> {}, ret |-> <<>>]

\* Nothing but the operation state and the range of futures is in use.
NoOther == NoFind /\ NoChain

\* No algorithm over a range of futures is in use.
NoRange ==
    /\ inputs = <<>>
    /\ deadline = FALSE
    /\ scan = [pc |-> "none", it |-> 0, all_ready |-> TRUE, ret |-> "none"]
    /\ conts = <<>>
    /\ agg = [status |-> "none", value |-> <<>>, index |-> 0, counter |-> 0,
              winner |-> FALSE, completions |-> 0]

\* Threads blocked in waiter_.wait / waiter_.wait_until.
Blocked == {t \in AllThreads : pc[t] = "w_blocked"}

Idle(t) == pc[t] = "idle"

\* ------------------------------------------------------------ observers
is_deferred_ == status_ = "deferred"

is_ready == status_ = "ready"

is_running == status_ \in {"launched", "waiting"}

failed == is_ready /\ except_ # "null"

\* The continuation list of a deferred state is continuations_state<true>
\* (plain bool and small_vector), that of an eager state continuations_state<false>.
is_always_deferred == is_deferred

\* ----------------------------------------------------------------- Init
\* operation_state_base(bool is_deferred): deferred or launched; everything else
\* default-constructed.
InitialStatus(d) == IF d THEN "deferred" ELSE "launched"

Init ==
    /\ is_deferred \in BOOLEAN
    /\ inline_task \in BOOLEAN
    /\ (~is_deferred => ~inline_task)
    /\ before_ = "none"
    /\ status_ = InitialStatus(is_deferred)
    /\ except_ = "null"
    /\ external_waiters_ = <<>>
    /\ waiters_mutex_ = NoThread
    /\ storage = "empty"
    /\ run_requested_ = FALSE
    /\ continuations_ = <<>>
    /\ continuations_mutex_ = NoThread
    /\ notified = {}
    /\ ext_notified = {}
    /\ posted = FALSE
    /\ exec_q = {}
    /\ pc = [t \in AllThreads |-> "idle"]
    /\ op = [t \in AllThreads |-> "none"]
    /\ arg = [t \in AllThreads |-> "none"]
    /\ ret = [t \in AllThreads |-> "none"]
    /\ ret_to = [t \in AllThreads |-> "idle"]
    /\ in_apply = [t \in AllThreads |-> FALSE]
    /\ handle = [t \in AllThreads |-> 0]
    /\ idx = [t \in AllThreads |-> 0]
    /\ last = [t \in AllThreads |-> 0]
    /\ ops = 0
    /\ budget = MaxOps
    /\ writes = 0
    /\ drains = 0
    /\ launches = 0
    /\ task_runs = 0
    /\ task_out = "none"
    /\ launched_by = "none"
    /\ ran = [f \in Fns |-> 0]
    /\ pushed = {}
    /\ moved_from = FALSE
    /\ destroyed = FALSE
    /\ NotStoppable
    /\ NoRange
    /\ NoOther

\* --------------------------------------------------- calls and returns
\* A thread starts a member function: it is idle, the state is alive and the
\* budget of operations is not used up.
CanStart(t) == Idle(t) /\ ~destroyed /\ ops < budget

Begin(t, name, label, a) ==
    /\ pc' = [pc EXCEPT ![t] = label]
    /\ op' = [op EXCEPT ![t] = name]
    /\ arg' = [arg EXCEPT ![t] = a]
    /\ ret' = [ret EXCEPT ![t] = "none"]
    /\ ops' = ops + 1

\* The innermost call returns normally with result r: control goes back to the
\* caller (ret_to), which is "idle" for a call made by the thread itself.
Return(t, r) ==
    /\ pc' = [pc EXCEPT ![t] = ret_to[t]]
    /\ ret_to' = [ret_to EXCEPT ![t] = "idle"]
    /\ ret' = [ret EXCEPT ![t] = IF ret_to[t] = "idle" THEN r ELSE ret[t]]
    /\ in_apply' = [in_apply EXCEPT ![t] = FALSE]

\* An exception e leaves the member function and every caller on the thread's
\* stack; the unique_lock and relocker destructors leave waiters_mutex_ unlocked.
Throw(t, e) ==
    /\ pc' = [pc EXCEPT ![t] = "idle"]
    /\ ret_to' = [ret_to EXCEPT ![t] = "idle"]
    /\ ret' = [ret EXCEPT ![t] = e]
    /\ in_apply' = [in_apply EXCEPT ![t] = FALSE]

Goto(t, label) == pc' = [pc EXCEPT ![t] = label]

\* What the thread's own call returns when the innermost call is request_run:
\* request_run's bool for a direct call, nothing for set_value / set_exception /
\* the task, which discard it.
Result(t, r) == IF op[t] = "request_run" THEN r ELSE "void"

\* ------------------------------------------------------- waiters_mutex_
\* std::mutex::lock by the thread that owns the mutex is undefined: the call
\* hangs, or it returns and the mutex counts the nested lock (the thread still
\* owns it after the inner unlock).
RelockOutcomes == {"hang", "proceed"}

\* make_wait_lock() returns: the mutex is free, or the caller owns it already
\* and the relock goes through. A region under the lock is one step, so the
\* owner is the same before and after it.
LockAvailable(t) ==
    \/ waiters_mutex_ = NoThread
    \/ waiters_mutex_ = t /\ "proceed" \in RelockOutcomes

\* The mutex after stack unwinding or after the unique_lock's destructor.
Unlocked(t) == IF waiters_mutex_ = t THEN NoThread ELSE waiters_mutex_

\* ------------------------------------------------------ mark_ready_unsafe
\* if (prev == status::waiting): the notifications are sent only then.
NotifyNeeded == status_ = "waiting"

mark_ready_unsafe ==
    /\ status_' = "ready"
    /\ notified' = IF NotifyNeeded THEN notified \cup Blocked ELSE notified
    /\ ext_notified' = IF NotifyNeeded
                          THEN ext_notified \cup Range(external_waiters_)
                          ELSE ext_notified

\* request_run(mp_bool<is_always_deferred>{}): the overload entered.
RequestRunEntry == IF is_always_deferred THEN "rd_check" ELSE "rr_cas"

\* ------------------------------------------------------------- set_value
\* Only an eager state has a promise / packaged task that sets it from outside;
\* a deferred state is completed by its own stored task.
StartSetValue(t, v) ==
    /\ CanStart(t) /\ ~is_deferred
    /\ Begin(t, "set_value", "sv_check", v)
    /\ UNCHANGED <<opvars, contvars, cvvars, envvars, ret_to, in_apply, handle,
                   idx, last, writes, drains, launches, taskvars, moved_from, destroyed>>

\* set_value without its is_ready() check.
SetValueRejects_mut == FALSE

\* if (this->is_ready()) throw promise_already_satisfied: an unlocked read.
SetValueRejects == is_ready

\* Inside apply the exception is caught and handed to set_exception.
SetValueCheck(t) ==
    /\ pc[t] = "sv_check"
    /\ IF SetValueRejects
          THEN IF in_apply[t]
                 THEN /\ Goto(t, "se_mark")
                      /\ arg' = [arg EXCEPT ![t] = "promise_already_satisfied"]
                      /\ in_apply' = [in_apply EXCEPT ![t] = FALSE]
                      /\ UNCHANGED <<ret, ret_to, waiters_mutex_>>
                 ELSE /\ Throw(t, "promise_already_satisfied")
                      /\ waiters_mutex_' = Unlocked(t)
                      /\ UNCHANGED arg
          ELSE /\ Goto(t, "sv_store")
               /\ UNCHANGED <<arg, ret, ret_to, in_apply, waiters_mutex_>>
    /\ UNCHANGED <<status_, except_, external_waiters_, storage, contvars, cvvars,
                   envvars, op, handle, idx, last, histvars>>

\* get_storage().set_value(args...): no lock is held.
SetValueStore(t) ==
    /\ pc[t] = "sv_store"
    /\ storage' = arg[t]
    /\ writes' = writes + 1
    /\ Goto(t, "sv_mark")
    /\ UNCHANGED <<status_, except_, external_waiters_, waiters_mutex_, contvars,
                   cvvars, envvars, op, arg, ret, ret_to, in_apply, handle, idx, last,
                   ops, drains, launches, taskvars, moved_from, destroyed>>

\* mark_ready_and_continue_impl: mark_ready() under the lock, then request_run.
SetValueMark(t) ==
    /\ pc[t] = "sv_mark"
    /\ LockAvailable(t)
    /\ mark_ready_unsafe
    /\ UNCHANGED waiters_mutex_
    /\ Goto(t, RequestRunEntry)
    /\ UNCHANGED <<except_, external_waiters_, storage, contvars, envvars, op, arg,
                   ret, ret_to, in_apply, handle, idx, last, histvars>>

\* --------------------------------------------------------- set_exception
StartSetException(t, e) ==
    /\ CanStart(t) /\ ~is_deferred
    /\ Begin(t, "set_exception", "se_mark", e)
    /\ UNCHANGED <<opvars, contvars, cvvars, envvars, ret_to, in_apply, handle,
                   idx, last, writes, drains, launches, taskvars, moved_from, destroyed>>

\* mark_exception_unsafe: if (is_ready()) throw promise_already_satisfied.
MarkExceptionRejects == is_ready

\* mark_exception(except) under the lock; on success control goes to `next`.
mark_exception(t, next) ==
    /\ LockAvailable(t)
    /\ IF MarkExceptionRejects
          THEN /\ Throw(t, "promise_already_satisfied")
               /\ waiters_mutex_' = Unlocked(t)
               /\ UNCHANGED <<status_, except_, notified, ext_notified, writes>>
          ELSE /\ except_' = arg[t]
               /\ writes' = writes + 1
               /\ mark_ready_unsafe
               /\ Goto(t, next)
               /\ UNCHANGED <<ret, ret_to, in_apply, waiters_mutex_>>

\* mark_exception_and_continue_impl: mark_exception, then request_run.
SetExceptionMark(t) ==
    /\ pc[t] = "se_mark"
    /\ mark_exception(t, RequestRunEntry)
    /\ UNCHANGED <<external_waiters_, storage, contvars, envvars, op, arg, handle,
                   idx, last, ops, drains, launches, taskvars, moved_from, destroyed>>

\* ------------------------------ get_exception_ptr / throw_internal_exception
ExceptionGetters == {"get_exception_ptr", "throw_internal_exception"}

\* std::rethrow_exception of a null exception_ptr (a Ready state holding a
\* value) is undefined: the program is terminated or a null exception escapes.
RethrowNullOutcomes == {"terminate", "null"}

StartGetExceptionPtr(t, k) ==
    /\ CanStart(t)
    /\ Begin(t, k, "gep_lock", "none")
    /\ UNCHANGED <<opvars, contvars, cvvars, envvars, ret_to, in_apply, handle,
                   idx, last, writes, drains, launches, taskvars, moved_from, destroyed>>

\* A get_exception_ptr that hands out except_ whatever the status.
GetExceptionPtrResult_mut(t) ==
    IF op[t] = "get_exception_ptr" \/ except_ # "null"
       THEN {except_}
       ELSE RethrowNullOutcomes

\* What the call produces once it holds the lock: promise_uninitialized when
\* !is_ready(), otherwise except_ (returned, or rethrown by
\* throw_internal_exception).
GetExceptionPtrResult(t) ==
    IF ~is_ready
       THEN {"promise_uninitialized"}
       ELSE IF op[t] = "get_exception_ptr" \/ except_ # "null"
               THEN {except_}
               ELSE RethrowNullOutcomes

\* auto lk = make_wait_lock(); if (!is_ready()) throw ...; return except_;
GetExceptionPtr(t) ==
    /\ pc[t] = "gep_lock"
    /\ LockAvailable(t)
    /\ \E r \in GetExceptionPtrResult(t) :
          IF is_ready /\ op[t] = "get_exception_ptr"
             THEN Return(t, r)
             ELSE Throw(t, r)
    /\ UNCHANGED <<opvars, contvars, cvvars, envvars, op, arg, handle, idx, last,
                   histvars>>

\* ---------------------------------------------- signal_promise_destroyed
StartSignalPromiseDestroyed(t) ==
    /\ CanStart(t) /\ ~is_deferred
    /\ Begin(t, "signal_promise_destroyed", "spd_check", "broken_promise")
    /\ UNCHANGED <<opvars, contvars, cvvars, envvars, ret_to, in_apply, handle,
                   idx, last, writes, drains, launches, taskvars, moved_from, destroyed>>

\* if (!is_ready()): an unlocked read.
SignalPromiseDestroyedCheck(t) ==
    /\ pc[t] = "spd_check"
    /\ IF ~is_ready
          THEN /\ Goto(t, "spd_mark")
               /\ UNCHANGED <<ret, ret_to, in_apply>>
          ELSE Return(t, "void")
    /\ UNCHANGED <<opvars, contvars, cvvars, envvars, op, arg, handle, idx, last,
                   histvars>>

\* mark_exception(make_exception_ptr(broken_promise())) of the base class: the
\* continuations are not run.
SignalPromiseDestroyedMark(t) ==
    /\ pc[t] = "spd_mark"
    /\ mark_exception(t, "spd_done")
    /\ UNCHANGED <<external_waiters_, storage, contvars, envvars, op, arg, handle,
                   idx, last, ops, drains, launches, taskvars, moved_from, destroyed>>

SignalPromiseDestroyedReturn(t) ==
    /\ pc[t] = "spd_done"
    /\ Return(t, "void")
    /\ UNCHANGED <<opvars, contvars, cvvars, envvars, op, arg, handle, idx, last,
                   histvars>>

\* ----------------------------------------------------------- request_run
\* A direct call of continuations_source::request_run (state_ != nullptr).
\* continuations_state<true> has a plain bool and a plain vector: it is used
\* by one thread at a time, so a direct call starts when no other thread is
\* inside a member function.
StartRequestRun(t) ==
    /\ CanStart(t)
    /\ is_always_deferred => \A u \in AllThreads : Idle(u)
    /\ Begin(t, "request_run", RequestRunEntry, "none")
    /\ UNCHANGED <<opvars, contvars, cvvars, envvars, ret_to, in_apply, handle,
                   idx, last, writes, drains, launches, taskvars, moved_from, destroyed>>

\* c(): the callable is invoked.
Invoke(f) == ran' = [ran EXCEPT ![f] = @ + 1]

\* A plain store in place of the compare-exchange: every caller goes on.
CasSucceeds_mut == TRUE

\* run_requested_.compare_exchange_strong(prev_request, true)
CasSucceeds == ~run_requested_

\* request_run(std::false_type): the compare-exchange on the latch.
RequestRunCas(t) ==
    /\ pc[t] = "rr_cas"
    /\ IF CasSucceeds
          THEN /\ run_requested_' = TRUE
               /\ drains' = drains + 1
               /\ Goto(t, "rr_drain")
               /\ UNCHANGED <<ret, ret_to, in_apply>>
          ELSE /\ Return(t, Result(t, "false"))
               /\ UNCHANGED <<run_requested_, drains>>
    /\ UNCHANGED <<opvars, continuations_, continuations_mutex_, exec_q, ran, pushed,
                   cvvars, envvars, op, arg, handle, idx, last, ops, writes, launches, taskvars,
                   moved_from, destroyed>>

\* while (!continuations_.empty()) continuations_.pop()(); without the mutex.
RequestRunDrain(t) ==
    /\ pc[t] = "rr_drain"
    /\ IF continuations_ = <<>>
          THEN /\ Goto(t, "rr_lock")
               /\ UNCHANGED <<continuations_, ran>>
          ELSE /\ Invoke(Head(continuations_))
               /\ continuations_' = Tail(continuations_)
               /\ UNCHANGED pc
    /\ UNCHANGED <<opvars, run_requested_, continuations_mutex_, exec_q, pushed,
                   cvvars, envvars, op, arg, ret, ret_to, in_apply, handle, idx, last,
                   histvars>>

\* request_run going to its second loop without taking continuations_mutex_.
RequestRunLock_mut(t) ==
    /\ pc[t] = "rr_lock"
    /\ Goto(t, "rr_redrain")
    /\ UNCHANGED <<opvars, contvars, cvvars, envvars, op, arg, ret, ret_to,
                   in_apply, handle, idx, last, histvars>>

\* std::unique_lock<std::mutex> lock(continuations_mutex_)
RequestRunLock(t) ==
    /\ pc[t] = "rr_lock"
    /\ continuations_mutex_ = NoThread
    /\ continuations_mutex_' = t
    /\ Goto(t, "rr_redrain")
    /\ UNCHANGED <<opvars, run_requested_, continuations_, exec_q, ran, pushed,
                   cvvars, envvars, op, arg, ret, ret_to, in_apply, handle, idx, last,
                   histvars>>

\* request_run without the second loop: lock, unlock, return true.
RequestRunRedrain_mut(t) ==
    /\ pc[t] = "rr_redrain"
    /\ continuations_mutex_' = NoThread
    /\ Return(t, Result(t, "true"))
    /\ UNCHANGED <<opvars, run_requested_, continuations_, exec_q, ran, pushed,
                   cvvars, envvars, op, arg, handle, idx, last, histvars>>

\* The second loop, under the mutex; then return true.
RequestRunRedrain(t) ==
    /\ pc[t] = "rr_redrain"
    /\ IF continuations_ = <<>>
          THEN /\ continuations_mutex_' = NoThread
               /\ Return(t, Result(t, "true"))
               /\ UNCHANGED <<continuations_, ran>>
          ELSE /\ Invoke(Head(continuations_))
               /\ continuations_' = Tail(continuations_)
               /\ UNCHANGED <<pc, ret, ret_to, in_apply, continuations_mutex_>>
    /\ UNCHANGED <<opvars, run_requested_, exec_q, pushed, cvvars, envvars, op, arg,
                   handle, idx, last, histvars>>

\* request_run(std::true_type): if (!run_requested_) { run_requested_ = true; ...
\* The range-for takes begin() and end() once.
RequestRunDeferredCheck(t) ==
    /\ pc[t] = "rd_check"
    /\ IF ~run_requested_
          THEN /\ run_requested_' = TRUE
               /\ drains' = drains + 1
               /\ idx' = [idx EXCEPT ![t] = 1]
               /\ last' = [last EXCEPT ![t] = Len(continuations_)]
               /\ Goto(t, "rd_loop")
               /\ UNCHANGED <<ret, ret_to, in_apply>>
          ELSE /\ Return(t, Result(t, "false"))
               /\ UNCHANGED <<run_requested_, drains, idx, last>>
    /\ UNCHANGED <<opvars, continuations_, continuations_mutex_, exec_q, ran, pushed,
                   cvvars, envvars, op, arg, handle, ops, writes, launches, taskvars,
                   moved_from, destroyed>>

\* for (auto &c: continuations_) c();  continuations_.clear();  return true;
RequestRunDeferredLoop(t) ==
    /\ pc[t] = "rd_loop"
    /\ IF idx[t] > last[t]
          THEN /\ continuations_' = <<>>
               /\ idx' = [idx EXCEPT ![t] = 0]
               /\ last' = [last EXCEPT ![t] = 0]
               /\ Return(t, Result(t, "true"))
               /\ UNCHANGED ran
          ELSE /\ Invoke(continuations_[idx[t]])
               /\ idx' = [idx EXCEPT ![t] = @ + 1]
               /\ UNCHANGED <<continuations_, last, pc, ret, ret_to, in_apply>>
    /\ UNCHANGED <<opvars, run_requested_, continuations_mutex_, exec_q, pushed,
                   cvvars, envvars, op, arg, handle, histvars>>

\* ------------------------------------------------------------------ push
\* push(ex, fn) with a callable not used before.
StartPush(t) ==
    /\ CanStart(t)
    /\ Cardinality(pushed) < MaxPush
    /\ Begin(t, "push", "p_lock", Cardinality(pushed) + 1)
    /\ pushed' = pushed \cup {Cardinality(pushed) + 1}
    /\ UNCHANGED <<opvars, run_requested_, continuations_, continuations_mutex_,
                   exec_q, ran, cvvars, envvars, ret_to, in_apply, handle, idx, last,
                   writes, drains, launches, taskvars, moved_from, destroyed>>

\* std::unique_lock<std::mutex> lock(continuations_mutex_)
PushLock(t) ==
    /\ pc[t] = "p_lock"
    /\ continuations_mutex_ = NoThread
    /\ continuations_mutex_' = t
    /\ Goto(t, "p_check")
    /\ UNCHANGED <<opvars, run_requested_, continuations_, exec_q, ran, pushed,
                   cvvars, envvars, op, arg, ret, ret_to, in_apply, handle, idx, last,
                   histvars>>

\* A push that never looks at the latch.
is_run_requested_mut == FALSE

\* is_run_requested()
is_run_requested == run_requested_

\* if (!is_run_requested()) ... else { lock.unlock(); ...
PushCheck(t) ==
    /\ pc[t] = "p_check"
    /\ IF ~is_run_requested
          THEN /\ Goto(t, "p_push")
               /\ UNCHANGED continuations_mutex_
          ELSE /\ Goto(t, "p_exec")
               /\ continuations_mutex_' = NoThread
    /\ UNCHANGED <<opvars, run_requested_, continuations_, exec_q, ran, pushed,
                   cvvars, envvars, op, arg, ret, ret_to, in_apply, handle, idx, last,
                   histvars>>

\* push_continuation(continuations_, fn); return true; (the lock is released)
PushRecord(t) ==
    /\ pc[t] = "p_push"
    /\ continuations_' = Append(continuations_, arg[t])
    /\ continuations_mutex_' = NoThread
    /\ Return(t, "true")
    /\ UNCHANGED <<opvars, run_requested_, exec_q, ran, pushed, cvvars, envvars, op,
                   arg, handle, idx, last, histvars>>

\* execute(ex, fn); return false;
PushExecute(t) ==
    /\ pc[t] = "p_exec"
    /\ exec_q' = exec_q \cup {arg[t]}
    /\ Return(t, "false")
    /\ UNCHANGED <<opvars, run_requested_, continuations_, continuations_mutex_, ran,
                   pushed, cvvars, envvars, op, arg, handle, idx, last, histvars>>

\* continuations_source::push on a source whose state_ is nullptr: the call
\* returns false at once; fn is neither recorded nor given to the executor.
PushNoState(t) ==
    /\ CanStart(t)
    /\ Cardinality(pushed) < MaxPush
    /\ op' = [op EXCEPT ![t] = "push_no_state"]
    /\ arg' = [arg EXCEPT ![t] = Cardinality(pushed) + 1]
    /\ ret' = [ret EXCEPT ![t] = "false"]
    /\ ops' = ops + 1
    /\ UNCHANGED <<opvars, contvars, cvvars, envvars, pc, ret_to, in_apply, handle,
                   idx, last, writes, drains, launches, taskvars, moved_from,
                   destroyed>>

\* The executor runs a callable it was given.
ExecutorRun(f) ==
    /\ f \in exec_q
    /\ exec_q' = exec_q \ {f}
    /\ Invoke(f)
    /\ UNCHANGED <<opvars, run_requested_, continuations_, continuations_mutex_,
                   pushed, cvvars, envvars, thvars, histvars>>

\* ------------------------------------------------------------ wait_impl
\* wait(), wait() const, wait_for / wait_until (one deadline), their const
\* overloads, and get(), which starts with wait().
WaitKinds == {"wait", "wait_c", "wait_for", "wait_for_c", "get"}

\* The const overloads taking the mutable path.
IsConst_mut(t) == FALSE

\* Every overload taking the const path.
IsConst_mutAll(t) == TRUE

IsConst(t) == op[t] \in {"wait_c", "wait_for_c"}

IsTimed(t) == op[t] \in {"wait_for", "wait_for_c"}

StartWait(t, kind) ==
    /\ CanStart(t)
    /\ Begin(t, kind, "w_lock", "none")
    /\ UNCHANGED <<opvars, contvars, cvvars, envvars, ret_to, in_apply, handle,
                   idx, last, writes, drains, launches, taskvars, moved_from, destroyed>>

\* The stored task returns a value or throws: apply calls set_value with the
\* value, or set_exception from its catch block.
TaskOutcomes == Values \cup Errors

\* An apply without its catch block: whatever fn produces goes to set_value.
ApplyEntry_mut(o) == "sv_check"

ApplyEntry(o) == IF o \in Values THEN "sv_check" ELSE "se_mark"

\* wait_impl returns r to wait / wait_for / wait_until; get goes on to read.
WaitReturn(t, r) ==
    IF op[t] = "get"
      THEN /\ Goto(t, "g_read")
           /\ UNCHANGED <<ret, ret_to, in_apply>>
      ELSE Return(t, r)

\* A launch that forgets to leave the Deferred status.
LaunchedStatus_mut == "deferred"

\* op.status_ = status::launched in post_deferred_impl
LaunchedStatus == "launched"

\* op.status_ = status::waiting
WaitingStatus == "waiting"

\* A timed-out wait that leaves the status as it set it.
TimeoutStatus_mut == "waiting"

\* op.status_ = status::launched after wait_until timed out
TimeoutStatus == "launched"

\* wait_impl from make_wait_lock() to the first point where the lock is given
\* up: a return, the relocker around post_deferred, or the condition variable.
WaitImplBody(t) ==
    /\ IF (IsConst(t) /\ is_deferred_) \/ is_ready
          THEN /\ WaitReturn(t, IF is_ready THEN "ready" ELSE "deferred")
               /\ UNCHANGED <<status_, posted, launches, taskvars, arg>>
          ELSE IF is_deferred_
                 THEN /\ status_' = LaunchedStatus
                      /\ launches' = launches + 1
                      /\ launched_by' = op[t]
                      /\ IF inline_task
                            THEN \E o \in TaskOutcomes :
                                   /\ Goto(t, ApplyEntry(o))
                                   /\ arg' = [arg EXCEPT ![t] = o]
                                   /\ in_apply' = [in_apply EXCEPT ![t] = o \in Values]
                                   /\ ret_to' = [ret_to EXCEPT ![t] = "w_relock"]
                                   /\ task_runs' = task_runs + 1
                                   /\ task_out' = o
                                   /\ UNCHANGED <<posted, ret>>
                            ELSE /\ posted' = TRUE
                                 /\ Goto(t, "w_relock")
                                 /\ UNCHANGED <<arg, ret, ret_to, in_apply, task_runs,
                                                task_out>>
                 ELSE /\ status_' = WaitingStatus
                      /\ Goto(t, "w_blocked")
                      /\ UNCHANGED <<posted, launches, taskvars, arg, ret, ret_to, in_apply>>
    /\ UNCHANGED <<except_, external_waiters_, storage, contvars, cvvars,
                   is_deferred, inline_task, before_, budget, rangevars, othervars, stopvars,
                   op, handle, idx, last,
                   ops, writes, drains, moved_from, destroyed>>

\* post_deferred_impl(op, ...) starts with op.wait_for_parent(), which is
\* before_.wait() for a continuation task: the mutable wait of a state that is
\* not ready has to wait for a parent that is not ready yet.
\* A post_deferred_impl that does not call wait_for_parent.
WaitsForParent_mut(t) == FALSE

WaitsForParent(t) == before_ = "pending" /\ ~IsConst(t) /\ ~is_ready

WaitImplLock(t) ==
    /\ pc[t] = "w_lock"
    /\ waiters_mutex_ = NoThread
    /\ ~WaitsForParent(t)
    /\ WaitImplBody(t)
    /\ UNCHANGED waiters_mutex_

\* The relocker's destructor locks again: prev = op.status_; if it is not ready
\* the thread sets waiting and blocks on waiter_.
WaitImplRelock(t) ==
    /\ pc[t] = "w_relock"
    /\ waiters_mutex_ = NoThread
    /\ IF is_ready
          THEN /\ WaitReturn(t, "ready")
               /\ UNCHANGED status_
          ELSE /\ status_' = WaitingStatus
               /\ Goto(t, "w_blocked")
               /\ UNCHANGED <<ret, ret_to, in_apply>>
    /\ UNCHANGED <<except_, external_waiters_, waiters_mutex_, storage, contvars,
                   cvvars, envvars, op, arg, handle, idx, last, histvars>>

\* waiter_.notify_all() reached the thread: it takes the lock and evaluates the
\* predicate op.is_ready().
CvWake(t) ==
    /\ pc[t] = "w_blocked"
    /\ t \in notified
    /\ waiters_mutex_ = NoThread
    /\ notified' = notified \ {t}
    /\ IF is_ready
          THEN WaitReturn(t, "ready")
          ELSE UNCHANGED <<pc, ret, ret_to, in_apply>>
    /\ UNCHANGED <<opvars, contvars, ext_notified, envvars, op, arg, handle, idx,
                   last, histvars>>

\* A spurious wakeup: without a notification the thread evaluates the predicate
\* (a wakeup that finds it false changes nothing).
CvSpurious(t) ==
    /\ pc[t] = "w_blocked"
    /\ t \notin notified
    /\ waiters_mutex_ = NoThread
    /\ is_ready
    /\ WaitReturn(t, "ready")
    /\ UNCHANGED <<opvars, contvars, cvvars, envvars, op, arg, handle, idx, last,
                   histvars>>

\* wait_until(lk, *timeout_time, pred) reaches the deadline: it returns pred().
CvTimeout(t) ==
    /\ pc[t] = "w_blocked"
    /\ IsTimed(t)
    /\ waiters_mutex_ = NoThread
    /\ notified' = notified \ {t}
    /\ IF is_ready
          THEN /\ WaitReturn(t, "ready")
               /\ UNCHANGED status_
          ELSE /\ status_' = TimeoutStatus
               /\ Return(t, "timeout")
    /\ UNCHANGED <<except_, external_waiters_, waiters_mutex_, storage, contvars,
                   ext_notified, envvars, op, arg, handle, idx, last, histvars>>

\* A get() that returns the storage without looking at failed().
GetRead_mut(t) ==
    /\ pc[t] = "g_read"
    /\ Return(t, storage)
    /\ UNCHANGED <<opvars, contvars, cvvars, envvars, op, arg, handle, idx, last,
                   histvars>>

\* get() after wait(): if (failed()) throw_internal_exception();
\* return get_storage().get();
GetRead(t) ==
    /\ pc[t] = "g_read"
    /\ IF failed
          THEN Throw(t, except_)
          ELSE Return(t, storage)
    /\ UNCHANGED <<opvars, contvars, cvvars, envvars, op, arg, handle, idx, last,
                   histvars>>

\* An executor that runs a submitted task without taking it off its queue.
RunTask_mut(t, o) ==
    /\ Idle(t) /\ ~destroyed
    /\ posted
    /\ Goto(t, ApplyEntry(o))
    /\ op' = [op EXCEPT ![t] = "task"]
    /\ arg' = [arg EXCEPT ![t] = o]
    /\ ret' = [ret EXCEPT ![t] = "none"]
    /\ in_apply' = [in_apply EXCEPT ![t] = o \in Values]
    /\ task_runs' = task_runs + 1
    /\ task_out' = o
    /\ UNCHANGED <<opvars, contvars, cvvars, envvars, ret_to,
                   handle, idx, last, ops, writes, drains, launches, launched_by,
                   moved_from, destroyed>>

\* The executor runs the posted task of a deferred state:
\* this->apply(std::move(this->get_function())).
RunTask(t, o) ==
    /\ Idle(t) /\ ~destroyed
    /\ posted
    /\ posted' = FALSE
    /\ Goto(t, ApplyEntry(o))
    /\ op' = [op EXCEPT ![t] = "task"]
    /\ arg' = [arg EXCEPT ![t] = o]
    /\ ret' = [ret EXCEPT ![t] = "none"]
    /\ in_apply' = [in_apply EXCEPT ![t] = o \in Values]
    /\ task_runs' = task_runs + 1
    /\ task_out' = o
    /\ UNCHANGED <<opvars, contvars, cvvars, is_deferred, inline_task, before_,
                   budget, rangevars, othervars, stopvars, ret_to,
                   handle, idx, last, ops, writes, drains, launches, launched_by,
                   moved_from, destroyed>>

\* The thread's own mark_ready / mark_exception finds waiters_mutex_ owned by
\* the thread itself and never returns.
RelockHang(t) ==
    /\ pc[t] \in {"sv_mark", "se_mark"}
    /\ waiters_mutex_ = t
    /\ "hang" \in RelockOutcomes
    /\ Goto(t, "hung")
    /\ UNCHANGED <<opvars, contvars, cvvars, envvars, op, arg, ret, ret_to,
                   in_apply, handle, idx, last, histvars>>

\* ---------------------------------------------------- notify_when_ready
StartNotifyWhenReady(t) ==
    /\ CanStart(t)
    /\ Begin(t, "notify_when_ready", "n_lock", "none")
    /\ UNCHANGED <<opvars, contvars, cvvars, envvars, ret_to, in_apply, handle,
                   idx, last, writes, drains, launches, taskvars, moved_from, destroyed>>

\* if (prev != status::ready) status_ = status::waiting;  prev is the status
\* read when the lock was taken.
StatusAfterNotify(prev) == IF prev # "ready" THEN WaitingStatus ELSE status_

\* external_waiters_.insert(external_waiters_.end(), &cv): the handle is the
\* position of the new element.
InsertWaiter(t) ==
    /\ external_waiters_' = Append(external_waiters_, t)
    /\ handle' = [handle EXCEPT ![t] = Len(external_waiters_) + 1]

\* notify_when_ready under the lock. A deferred state is launched first; with
\* an executor post_deferred only submits the task and the function runs to its
\* end, without one the task runs inside post_deferred, the lock still held.
NotifyWhenReadyBody(t) ==
    /\ IF is_deferred_ /\ inline_task
          THEN \E o \in TaskOutcomes :
                 /\ status_' = LaunchedStatus
                 /\ launches' = launches + 1
                 /\ launched_by' = op[t]
                 /\ task_runs' = task_runs + 1
                 /\ task_out' = o
                 /\ waiters_mutex_' = t
                 /\ Goto(t, ApplyEntry(o))
                 /\ arg' = [arg EXCEPT ![t] = o]
                 /\ in_apply' = [in_apply EXCEPT ![t] = o \in Values]
                 /\ ret_to' = [ret_to EXCEPT ![t] = "n_after"]
                 /\ UNCHANGED <<external_waiters_, handle, posted, ret>>
          ELSE /\ status_' = StatusAfterNotify(status_)
               /\ posted' = (posted \/ is_deferred_)
               /\ launches' = IF is_deferred_ THEN launches + 1 ELSE launches
               /\ launched_by' = IF is_deferred_ THEN op[t] ELSE launched_by
               /\ UNCHANGED <<task_runs, task_out>>
               /\ InsertWaiter(t)
               /\ Return(t, "handle")
               /\ waiters_mutex_' = NoThread
               /\ UNCHANGED arg
    /\ UNCHANGED <<except_, storage, contvars, cvvars, is_deferred, inline_task,
                   before_, budget, rangevars, othervars, stopvars, op, idx, last, ops, writes, drains,
                   moved_from, destroyed>>

NotifyWhenReadyLock(t) ==
    /\ pc[t] = "n_lock"
    /\ waiters_mutex_ = NoThread
    /\ before_ # "pending"
    /\ NotifyWhenReadyBody(t)

\* ------------------------------------------------------- wait_for_parent
\* wait_for_parent_impl(true_type): this->get_function().before_.wait(), called
\* with waiters_mutex_ held by post_deferred_impl (a mutable wait of a state
\* that is not ready) and by notify_when_ready (always). The parent is not
\* ready: the thread stays inside before_.wait(), the lock held.
WaitForParentEnter(t) ==
    /\ before_ = "pending"
    /\ waiters_mutex_ = NoThread
    /\ \/ pc[t] = "w_lock" /\ WaitsForParent(t) /\ Goto(t, "w_parent")
       \/ pc[t] = "n_lock" /\ Goto(t, "n_parent")
    /\ waiters_mutex_' = t
    /\ UNCHANGED <<status_, except_, external_waiters_, storage, contvars, cvvars,
                   envvars, op, arg, ret, ret_to, in_apply, handle, idx, last,
                   histvars>>

\* The parent's own task completes it, on the thread that runs the parent.
ParentReady ==
    /\ before_ = "pending"
    /\ before_' = "ready"
    /\ UNCHANGED <<opvars, contvars, cvvars, is_deferred, inline_task, budget,
                   posted, rangevars, othervars, stopvars, thvars, histvars>>

\* before_.wait() returns in wait_impl: the rest of wait_impl follows, up to
\* the point where it gives the lock up.
WaitImplAfterParent(t) ==
    /\ pc[t] = "w_parent"
    /\ before_ = "ready"
    /\ WaitImplBody(t)
    /\ waiters_mutex_' = NoThread

\* before_.wait() returns in notify_when_ready.
NotifyWhenReadyAfterParent(t) ==
    /\ pc[t] = "n_parent"
    /\ before_ = "ready"
    /\ NotifyWhenReadyBody(t)

\* Back from post_deferred with prev == status::deferred.
NotifyWhenReadyAfter(t) ==
    /\ pc[t] = "n_after"
    /\ status_' = StatusAfterNotify("deferred")
    /\ InsertWaiter(t)
    /\ waiters_mutex_' = Unlocked(t)
    /\ Return(t, "handle")
    /\ UNCHANGED <<except_, storage, contvars, cvvars, envvars, op, arg, idx, last,
                   histvars>>

\* external_waiters_.erase(it) on a sequence s: the elements behind the
\* position move down by one.
Erase(s, i) == [j \in 1..(Len(s) - 1) |-> IF j < i THEN s[j] ELSE s[j + 1]]

\* unnotify_when_ready(it) with the handle of the thread's last registration.
UnnotifyWhenReady(t) ==
    /\ CanStart(t)
    /\ handle[t] # 0
    /\ handle[t] <= Len(external_waiters_)
    /\ waiters_mutex_ = NoThread
    /\ external_waiters_' = Erase(external_waiters_, handle[t])
    /\ handle' = [handle EXCEPT ![t] = 0]
    /\ op' = [op EXCEPT ![t] = "unnotify_when_ready"]
    /\ ret' = [ret EXCEPT ![t] = "void"]
    /\ ops' = ops + 1
    /\ UNCHANGED <<status_, except_, waiters_mutex_, storage, contvars, cvvars,
                   envvars, pc, arg, ret_to, in_apply, idx, last, writes, drains,
                   launches, taskvars, moved_from, destroyed>>

\* ------------------------------------------------------ move construction
\* operation_state_base(operation_state_base &&other) with this state as
\* `other`: valid only while the task is not running (assert(!is_running())),
\* on a state no thread is using. except_ and external_waiters_ are moved out,
\* and other.status_ = status::ready.
MoveConstructFrom ==
    /\ \A t \in AllThreads : Idle(t)
    /\ ~destroyed /\ ~moved_from /\ ops < budget
    /\ ~is_running
    /\ waiters_mutex_ = NoThread
    /\ status_' = "ready"
    /\ except_' = "null"
    /\ external_waiters_' = <<>>
    /\ moved_from' = TRUE
    /\ ops' = ops + 1
    /\ UNCHANGED <<waiters_mutex_, storage, contvars, cvvars, envvars, thvars,
                   writes, drains, launches, taskvars, destroyed>>

\* ------------------------------------------------------------ destruction
\* A destructor that drops the list without request_run.
StartDestroy_mut(t) ==
    /\ \A u \in AllThreads : Idle(u)
    /\ ~destroyed
    /\ destroyed' = TRUE
    /\ op' = [op EXCEPT ![t] = "destroy"]
    /\ ret' = [ret EXCEPT ![t] = "void"]
    /\ UNCHANGED <<opvars, contvars, cvvars, envvars, pc, arg, ret_to, in_apply,
                   handle, idx, last, ops, writes, drains, launches, taskvars,
                   moved_from>>

\* The last reference goes away: ~continuations_state() calls request_run().
StartDestroy(t) ==
    /\ \A u \in AllThreads : Idle(u)
    /\ ~destroyed
    /\ destroyed' = TRUE
    /\ Goto(t, RequestRunEntry)
    /\ op' = [op EXCEPT ![t] = "destroy"]
    /\ ret' = [ret EXCEPT ![t] = "none"]
    /\ UNCHANGED <<opvars, contvars, cvvars, envvars, arg, ret_to, in_apply, handle,
                   idx, last, ops, writes, drains, launches, taskvars, moved_from>>

\* ------------------------------------------------------------------ Next
Next ==
    \/ \E t \in Threads :
          \/ \E v \in Values : StartSetValue(t, v)
          \/ SetValueCheck(t)
          \/ SetValueStore(t)
          \/ SetValueMark(t)
          \/ \E e \in Errors : StartSetException(t, e)
          \/ SetExceptionMark(t)
          \/ StartSignalPromiseDestroyed(t)
          \/ SignalPromiseDestroyedCheck(t)
          \/ SignalPromiseDestroyedMark(t)
          \/ SignalPromiseDestroyedReturn(t)
          \/ StartRequestRun(t)
          \/ RequestRunCas(t)
          \/ RequestRunDrain(t)
          \/ RequestRunLock(t)
          \/ RequestRunRedrain(t)
          \/ RequestRunDeferredCheck(t)
          \/ RequestRunDeferredLoop(t)
          \/ StartPush(t)
          \/ PushLock(t)
          \/ PushCheck(t)
          \/ PushRecord(t)
          \/ PushExecute(t)
          \/ PushNoState(t)
          \/ \E k \in WaitKinds : StartWait(t, k)
          \/ WaitImplLock(t)
          \/ WaitImplRelock(t)
          \/ CvWake(t)
          \/ CvSpurious(t)
          \/ CvTimeout(t)
          \/ GetRead(t)
          \/ \E o \in TaskOutcomes : RunTask(t, o)
          \/ RelockHang(t)
          \/ StartNotifyWhenReady(t)
          \/ NotifyWhenReadyLock(t)
          \/ NotifyWhenReadyAfter(t)
          \/ UnnotifyWhenReady(t)
          \/ StartDestroy(t)
          \/ \E k \in ExceptionGetters : StartGetExceptionPtr(t, k)
          \/ GetExceptionPtr(t)
    \/ \E f \in Fns : ExecutorRun(f)
    \/ MoveConstructFrom

Spec == Init /\ [][Next]_vars

\* ------------------------------------------- the continuation list alone
\* Three threads attach continuations, request the run and drop the last
\* reference, on a list of either kind; the operation state is not touched.
InitCont ==
    /\ is_deferred \in BOOLEAN
    /\ inline_task = FALSE
    /\ before_ = "none"
    /\ status_ = InitialStatus(is_deferred)
    /\ except_ = "null"
    /\ external_waiters_ = <<>>
    /\ waiters_mutex_ = NoThread
    /\ storage = "empty"
    /\ run_requested_ = FALSE
    /\ continuations_ = <<>>
    /\ continuations_mutex_ = NoThread
    /\ notified = {}
    /\ ext_notified = {}
    /\ posted = FALSE
    /\ exec_q = {}
    /\ pc = [t \in AllThreads |-> "idle"]
    /\ op = [t \in AllThreads |-> "none"]
    /\ arg = [t \in AllThreads |-> "none"]
    /\ ret = [t \in AllThreads |-> "none"]
    /\ ret_to = [t \in AllThreads |-> "idle"]
    /\ in_apply = [t \in AllThreads |-> FALSE]
    /\ handle = [t \in AllThreads |-> 0]
    /\ idx = [t \in AllThreads |-> 0]
    /\ last = [t \in AllThreads |-> 0]
    /\ ops = 0
    /\ budget = MaxContOps
    /\ writes = 0
    /\ drains = 0
    /\ launches = 0
    /\ task_runs = 0
    /\ task_out = "none"
    /\ launched_by = "none"
    /\ ran = [f \in Fns |-> 0]
    /\ pushed = {}
    /\ moved_from = FALSE
    /\ destroyed = FALSE
    /\ NotStoppable
    /\ NoRange
    /\ NoOther

NextCont ==
    \/ \E t \in AllThreads :
          \/ StartRequestRun(t)
          \/ RequestRunCas(t)
          \/ RequestRunDrain(t)
          \/ RequestRunLock(t)
          \/ RequestRunRedrain(t)
          \/ RequestRunDeferredCheck(t)
          \/ RequestRunDeferredLoop(t)
          \/ StartPush(t)
          \/ PushLock(t)
          \/ PushCheck(t)
          \/ PushRecord(t)
          \/ PushExecute(t)
          \/ PushNoState(t)
          \/ StartDestroy(t)
    \/ \E f \in Fns : ExecutorRun(f)

SpecCont == InitCont /\ [][NextCont]_vars

\* ------------------------------------------ waits on a deferred state
\* Two threads wait on a deferred state (wait, wait_for, get and the const
\* overloads); the task runs inline or on the executor's thread t3. A call
\* that has started goes on whenever it can: the scheduler runs every thread,
\* the executor runs what was submitted, and a notified waiter wakes up.
\* Spurious wakeups and deadlines are possible, not guaranteed.
InitWait == Init /\ is_deferred

WaitStep(t) ==
    \/ WaitImplLock(t)
    \/ WaitImplRelock(t)
    \/ CvWake(t)
    \/ GetRead(t)

TaskStep(t) ==
    \/ \E o \in TaskOutcomes : RunTask(t, o)
    \/ SetValueCheck(t)
    \/ SetValueStore(t)
    \/ SetValueMark(t)
    \/ SetExceptionMark(t)
    \/ RequestRunDeferredCheck(t)
    \/ RequestRunDeferredLoop(t)

NextWait ==
    \/ \E t \in Threads :
          \/ \E k \in WaitKinds : StartWait(t, k)
          \/ WaitStep(t)
          \/ CvSpurious(t)
          \/ CvTimeout(t)
    \/ \E t \in AllThreads : TaskStep(t)

FairWait == \A t \in AllThreads : WF_vars(WaitStep(t)) /\ WF_vars(TaskStep(t))

SpecWait == InitWait /\ [][NextWait]_vars /\ FairWait

\* ------------------------------------------------- async and schedule
\* A future produced by async (an eager state whose task was submitted to the
\* executor when the future was made) or by schedule (a deferred state that
\* holds its task). Its owner and another thread wait on it and get its value;
\* nobody else holds a promise for it.
InitLaunch ==
    /\ is_deferred \in BOOLEAN
    /\ inline_task \in BOOLEAN
    /\ (~is_deferred => ~inline_task)
    /\ before_ = "none"
    /\ status_ = InitialStatus(is_deferred)
    /\ except_ = "null"
    /\ external_waiters_ = <<>>
    /\ waiters_mutex_ = NoThread
    /\ storage = "empty"
    /\ run_requested_ = FALSE
    /\ continuations_ = <<>>
    /\ continuations_mutex_ = NoThread
    /\ notified = {}
    /\ ext_notified = {}
    /\ posted = ~is_deferred
    /\ exec_q = {}
    /\ pc = [t \in AllThreads |-> "idle"]
    /\ op = [t \in AllThreads |-> "none"]
    /\ arg = [t \in AllThreads |-> "none"]
    /\ ret = [t \in AllThreads |-> "none"]
    /\ ret_to = [t \in AllThreads |-> "idle"]
    /\ in_apply = [t \in AllThreads |-> FALSE]
    /\ handle = [t \in AllThreads |-> 0]
    /\ idx = [t \in AllThreads |-> 0]
    /\ last = [t \in AllThreads |-> 0]
    /\ ops = 0
    /\ budget = MaxOps
    /\ writes = 0
    /\ drains = 0
    /\ launches = 0
    /\ task_runs = 0
    /\ task_out = "none"
    /\ launched_by = "none"
    /\ ran = [f \in Fns |-> 0]
    /\ pushed = {}
    /\ moved_from = FALSE
    /\ destroyed = FALSE
    /\ NotStoppable
    /\ NoRange
    /\ NoOther

NextLaunch ==
    \/ \E t \in Threads :
          \/ \E k \in WaitKinds : StartWait(t, k)
          \/ WaitStep(t)
          \/ CvSpurious(t)
          \/ CvTimeout(t)
    \/ \E t \in AllThreads :
          \/ TaskStep(t)
          \/ RequestRunCas(t)
          \/ RequestRunDrain(t)
          \/ RequestRunLock(t)
          \/ RequestRunRedrain(t)

SpecLaunch == InitLaunch /\ [][NextLaunch]_vars

\* ------------------------------------- a deferred continuation state
\* The state of a deferred continuation: its task is a future_continue_task
\* whose before_ is the parent future, ready or still running on its own
\* thread. Two threads wait on the state, register external waiters and
\* remove them; the task runs inline or on the executor's thread t3.
InitParent ==
    /\ is_deferred = TRUE
    /\ inline_task \in BOOLEAN
    /\ before_ \in {"pending", "ready"}
    /\ status_ = InitialStatus(is_deferred)
    /\ except_ = "null"
    /\ external_waiters_ = <<>>
    /\ waiters_mutex_ = NoThread
    /\ storage = "empty"
    /\ run_requested_ = FALSE
    /\ continuations_ = <<>>
    /\ continuations_mutex_ = NoThread
    /\ notified = {}
    /\ ext_notified = {}
    /\ posted = FALSE
    /\ exec_q = {}
    /\ pc = [t \in AllThreads |-> "idle"]
    /\ op = [t \in AllThreads |-> "none"]
    /\ arg = [t \in AllThreads |-> "none"]
    /\ ret = [t \in AllThreads |-> "none"]
    /\ ret_to = [t \in AllThreads |-> "idle"]
    /\ in_apply = [t \in AllThreads |-> FALSE]
    /\ handle = [t \in AllThreads |-> 0]
    /\ idx = [t \in AllThreads |-> 0]
    /\ last = [t \in AllThreads |-> 0]
    /\ ops = 0
    /\ budget = MaxOps
    /\ writes = 0
    /\ drains = 0
    /\ launches = 0
    /\ task_runs = 0
    /\ task_out = "none"
    /\ launched_by = "none"
    /\ ran = [f \in Fns |-> 0]
    /\ pushed = {}
    /\ moved_from = FALSE
    /\ destroyed = FALSE
    /\ NotStoppable
    /\ NoRange
    /\ NoOther

NextParent ==
    \/ \E t \in Threads :
          \/ \E k \in WaitKinds : StartWait(t, k)
          \/ WaitStep(t)
          \/ CvSpurious(t)
          \/ CvTimeout(t)
          \/ StartNotifyWhenReady(t)
          \/ NotifyWhenReadyLock(t)
          \/ NotifyWhenReadyAfter(t)
          \/ UnnotifyWhenReady(t)
          \/ RelockHang(t)
          \/ WaitForParentEnter(t)
          \/ WaitImplAfterParent(t)
          \/ NotifyWhenReadyAfterParent(t)
    \/ \E t \in AllThreads : TaskStep(t)
    \/ ParentReady

SpecParent == InitParent /\ [][NextParent]_vars

\* Waits only, with scheduling: a call that has started goes on whenever it
\* can, the executor runs what was submitted, and the deadline of a timed wait
\* passes. Nothing obliges the parent to complete.
NextParentWait ==
    \/ \E t \in Threads :
          \/ \E k \in WaitKinds : StartWait(t, k)
          \/ WaitStep(t)
          \/ CvSpurious(t)
          \/ CvTimeout(t)
          \/ WaitForParentEnter(t)
          \/ WaitImplAfterParent(t)
    \/ \E t \in AllThreads : TaskStep(t)
    \/ ParentReady

FairParent ==
    \A t \in AllThreads :
        /\ WF_vars(WaitStep(t))
        /\ WF_vars(TaskStep(t))
        /\ WF_vars(CvTimeout(t))
        /\ WF_vars(WaitForParentEnter(t))
        /\ WF_vars(WaitImplAfterParent(t))

SpecParentFair == InitParent /\ [][NextParentWait]_vars /\ FairParent

\* --------------------------------- wait_for_all_for / wait_for_all_until
\* The operation state of the other sections is not used by the algorithms
\* over a range of futures: it stays as constructed.
NoOperationState ==
    /\ is_deferred = FALSE
    /\ inline_task = FALSE
    /\ before_ = "none"
    /\ status_ = InitialStatus(is_deferred)
    /\ except_ = "null"
    /\ external_waiters_ = <<>>
    /\ waiters_mutex_ = NoThread
    /\ storage = "empty"
    /\ run_requested_ = FALSE
    /\ continuations_ = <<>>
    /\ continuations_mutex_ = NoThread
    /\ notified = {}
    /\ ext_notified = {}
    /\ posted = FALSE
    /\ exec_q = {}
    /\ pc = [t \in AllThreads |-> "idle"]
    /\ op = [t \in AllThreads |-> "none"]
    /\ arg = [t \in AllThreads |-> "none"]
    /\ ret = [t \in AllThreads |-> "none"]
    /\ ret_to = [t \in AllThreads |-> "idle"]
    /\ in_apply = [t \in AllThreads |-> FALSE]
    /\ handle = [t \in AllThreads |-> 0]
    /\ idx = [t \in AllThreads |-> 0]
    /\ last = [t \in AllThreads |-> 0]
    /\ ops = 0
    /\ budget = MaxOps
    /\ writes = 0
    /\ drains = 0
    /\ launches = 0
    /\ task_runs = 0
    /\ task_out = "none"
    /\ launched_by = "none"
    /\ ran = [f \in Fns |-> 0]
    /\ pushed = {}
    /\ moved_from = FALSE
    /\ destroyed = FALSE
    /\ NotStoppable

statevars == <<opvars, contvars, cvvars, is_deferred, inline_task, before_, budget,
               posted, othervars, stopvars, thvars, histvars>>

\* is_ready(*it)
InputReady(i) == inputs[i] # "pending"

\* One thread calls wait_for_all_for(timeout_duration, first, last) (or
\* wait_for_all_until) on a range of up to MaxInputs futures, some of them
\* ready already; the others are completed by their own tasks at any time,
\* and the deadline passes at some time.
InitWaitForAll ==
    /\ NoOperationState
    /\ NoOther
    /\ \E n \in 0..MaxInputs : inputs \in [1..n -> {"pending"} \cup TaskOutcomes]
    /\ deadline = FALSE
    /\ scan = [pc |-> "wait", it |-> 1, all_ready |-> TRUE, ret |-> "none"]
    /\ conts = <<>>
    /\ agg = [status |-> "none", value |-> <<>>, index |-> 0, counter |-> 0,
              winner |-> FALSE, completions |-> 0]

\* The task of input i finishes on its own thread.
CompleteInput(i) ==
    /\ i \in DOMAIN inputs
    /\ ~InputReady(i)
    /\ \E o \in TaskOutcomes : inputs' = [inputs EXCEPT ![i] = o]
    /\ UNCHANGED <<statevars, deadline, scan, aggvars>>

\* until_tp is reached.
DeadlinePasses ==
    /\ ~deadline
    /\ deadline' = TRUE
    /\ UNCHANGED <<statevars, inputs, scan, aggvars>>

\* for (it = first; it != last; ++it) it->wait_until(until_tp): the wait
\* returns when the future is ready or the deadline has passed.
WaitAllNext ==
    /\ scan.pc = "wait"
    /\ scan.it <= Len(inputs)
    /\ InputReady(scan.it) \/ deadline
    /\ scan' = [scan EXCEPT !.it = @ + 1]
    /\ UNCHANGED <<statevars, inputs, deadline, aggvars>>

\* it == last: bool all_ready = true; auto it = first;
WaitAllEnd ==
    /\ scan.pc = "wait"
    /\ scan.it > Len(inputs)
    /\ scan' = [scan EXCEPT !.pc = "scan", !.it = 1, !.all_ready = TRUE]
    /\ UNCHANGED <<statevars, inputs, deadline, aggvars>>

\* The scan loop with the ++it it lacks.
ScanAdvance_mut(it) == it + 1

\* The iterator after an iteration of the scan that found *it ready: the loop
\* body has no ++it.
ScanAdvance(it) == it

\* What wait_for_all returns for all_ready.
ScanResult(all_ready) == IF all_ready THEN "ready" ELSE "timeout"

\* while (it != last) { if (!is_ready(*it)) { all_ready = false; break; } }
\* followed by the return: the loop is left at it == last or by the break.
ScanLeave ==
    /\ scan.pc = "scan"
    /\ \/ /\ scan.it > Len(inputs)
          /\ scan' = [scan EXCEPT !.pc = "done", !.ret = ScanResult(scan.all_ready)]
       \/ /\ scan.it <= Len(inputs)
          /\ ~InputReady(scan.it)
          /\ scan' = [scan EXCEPT !.pc = "done", !.all_ready = FALSE,
                                   !.ret = ScanResult(FALSE)]
    /\ UNCHANGED <<statevars, inputs, deadline, aggvars>>

\* An iteration that finds *it ready goes round again with ScanAdvance(it).
ScanIterate ==
    /\ scan.pc = "scan"
    /\ scan.it <= Len(inputs)
    /\ InputReady(scan.it)
    /\ scan' = [scan EXCEPT !.it = ScanAdvance(@)]
    /\ UNCHANGED <<statevars, inputs, deadline, aggvars>>

\* A loop that never ends and has no side effect is undefined: the build may
\* take it to end, by the break or at it == last.
ScanAssumedToEnd ==
    /\ scan.pc = "scan"
    /\ scan.it <= Len(inputs)
    /\ InputReady(scan.it)
    /\ ScanAdvance(scan.it) = scan.it
    /\ \E b \in BOOLEAN :
          scan' = [scan EXCEPT !.pc = "done", !.all_ready = b, !.ret = ScanResult(b)]
    /\ UNCHANGED <<statevars, inputs, deadline, aggvars>>

WaitForAllStep == WaitAllNext \/ WaitAllEnd \/ ScanLeave \/ ScanIterate

NextWaitForAll ==
    \/ \E i \in 1..MaxInputs : CompleteInput(i)
    \/ DeadlinePasses
    \/ WaitAllNext
    \/ WaitAllEnd
    \/ ScanLeave
    \/ ScanIterate
    \/ ScanAssumedToEnd

\* The calling thread keeps running and time passes; nothing makes the other
\* tasks finish, and nothing makes the build end the loop.
FairWaitForAll == WF_vars(WaitForAllStep) /\ WF_vars(DeadlinePasses)

SpecWaitForAll == InitWaitForAll /\ [][NextWaitForAll]_vars /\ FairWaitForAll

\* ------------------------------------------------- when_all / when_any
\* The aggregate future A of when_all(fs...) or when_any(fs...) over inputs
\* that support continuations. The combinator attaches one continuation to
\* each input, first to last, while the inputs are completed by their own
\* tasks in any order; a continuation runs on the thread that completes its
\* input, or on the attaching thread when the input is ready already.
InitAggregate ==
    /\ NoOperationState
    /\ NoOther
    /\ \E n \in 1..MaxInputs : inputs \in [1..n -> {"pending"} \cup TaskOutcomes]
    /\ deadline = FALSE
    /\ scan = [pc |-> "none", it |-> 0, all_ready |-> TRUE, ret |-> "none"]
    /\ conts = [i \in DOMAIN inputs |-> "unattached"]
    /\ agg = [status |-> "pending", value |-> <<>>, index |-> 0,
              counter |-> Len(inputs), winner |-> FALSE, completions |-> 0]

\* then / push of the continuation on input i, after the inputs before it.
AttachContinuation(i) ==
    /\ i \in DOMAIN inputs
    /\ conts[i] = "unattached"
    /\ \A j \in 1..(i - 1) : conts[j] # "unattached"
    /\ conts' = [conts EXCEPT ![i] = "attached"]
    /\ UNCHANGED <<statevars, inputs, deadline, scan, agg>>

\* A completion that runs the continuations before the input is Ready.
ContinuationRunnable_mut(i) == conts[i] = "attached"

\* The continuation of input i can run: set_value / set_exception call
\* request_run() after mark_ready() / mark_exception(), and push runs the
\* callable at once on a state that is ready.
ContinuationRunnable(i) == conts[i] = "attached" /\ InputReady(i)

\* when_all: the continuation decrements the shared counter.
WhenAllDecrement(i) ==
    /\ i \in DOMAIN inputs
    /\ ContinuationRunnable(i)
    /\ agg' = [agg EXCEPT !.counter = @ - 1]
    /\ conts' = [conts EXCEPT ![i] = IF agg.counter = 1 THEN "last" ELSE "done"]
    /\ UNCHANGED <<statevars, inputs, deadline, scan>>

\* when_all: the last decrementer completes A with the collected inputs.
WhenAllComplete(i) ==
    /\ i \in DOMAIN inputs
    /\ conts[i] = "last"
    /\ agg' = [agg EXCEPT !.status = "ready", !.value = inputs,
                          !.completions = @ + 1]
    /\ conts' = [conts EXCEPT ![i] = "done"]
    /\ UNCHANGED <<statevars, inputs, deadline, scan>>

NextWhenAll ==
    \/ \E i \in 1..MaxInputs :
          \/ CompleteInput(i)
          \/ AttachContinuation(i)
          \/ WhenAllDecrement(i)
          \/ WhenAllComplete(i)

SpecWhenAll == InitAggregate /\ [][NextWhenAll]_vars

\* when_any: the continuation is guarded by the winner CAS.
WhenAnyCas(i) ==
    /\ i \in DOMAIN inputs
    /\ ContinuationRunnable(i)
    /\ agg' = [agg EXCEPT !.winner = TRUE]
    /\ conts' = [conts EXCEPT ![i] = IF agg.winner THEN "lost" ELSE "won"]
    /\ UNCHANGED <<statevars, inputs, deadline, scan>>

\* when_any: the winner completes A with its index and the inputs, some of
\* them possibly still pending.
WhenAnyComplete(i) ==
    /\ i \in DOMAIN inputs
    /\ conts[i] = "won"
    /\ agg' = [agg EXCEPT !.status = "ready", !.value = inputs, !.index = i,
                          !.completions = @ + 1]
    /\ conts' = [conts EXCEPT ![i] = "done"]
    /\ UNCHANGED <<statevars, inputs, deadline, scan>>

NextWhenAny ==
    \/ \E i \in 1..MaxInputs :
          \/ CompleteInput(i)
          \/ AttachContinuation(i)
          \/ WhenAnyCas(i)
          \/ WhenAnyComplete(i)

SpecWhenAny == InitAggregate /\ [][NextWhenAny]_vars

\* ------------------------------------- destruction of the operation state
\* A destroy_impl that never asks for the stop.
DestroyImplStops_mut(stoppable) == FALSE

\* destroy_impl(mp_bool<Options::is_stoppable>{}): the true_type overload calls
\* request_stop() on the stop_source, the false_type overload is empty.
DestroyImplStops(stoppable) == stoppable

\* ~operation_state(), run when the last reference to the state goes away (no
\* call on the state is in progress): the body is destroy_impl.
DestroyRequestStop(t) ==
    /\ \A u \in AllThreads : Idle(u)
    /\ ~destroyed
    /\ destroyed' = TRUE
    /\ stop_requested' = (stop_requested \/ DestroyImplStops(is_stoppable))
    /\ Goto(t, "d_members")
    /\ op' = [op EXCEPT ![t] = "destroy_state"]
    /\ ret' = [ret EXCEPT ![t] = "none"]
    /\ UNCHANGED <<opvars, contvars, cvvars, is_deferred, inline_task, before_,
                   budget, posted, rangevars, othervars, is_stoppable, released, arg, ret_to,
                   in_apply, handle, idx, last, ops, writes, drains, launches,
                   taskvars, moved_from>>

\* After the body the members go: the continuations_source drops the last
\* reference to the continuation list, whose destructor calls request_run().
DestroyMembers(t) ==
    /\ pc[t] = "d_members"
    /\ Goto(t, RequestRunEntry)
    /\ ret_to' = [ret_to EXCEPT ![t] = "d_base"]
    /\ UNCHANGED <<opvars, contvars, cvvars, envvars, op, arg, ret, in_apply,
                   handle, idx, last, histvars>>

\* ~operation_state_base(): auto lk = make_wait_lock(); then the storage of
\* the state is gone.
DestroyBase(t) ==
    /\ pc[t] = "d_base"
    /\ LockAvailable(t)
    /\ released' = TRUE
    /\ Return(t, "void")
    /\ UNCHANGED <<opvars, contvars, cvvars, is_deferred, inline_task, before_,
                   budget, posted, rangevars, othervars, is_stoppable, stop_requested, op, arg,
                   handle, idx, last, histvars>>

\* A state with or without a stop_source, eager or deferred: promises set
\* it, threads wait on it, and then the last reference goes away.
InitStop ==
    /\ is_deferred \in BOOLEAN
    /\ inline_task \in BOOLEAN
    /\ (~is_deferred => ~inline_task)
    /\ before_ = "none"
    /\ status_ = InitialStatus(is_deferred)
    /\ except_ = "null"
    /\ external_waiters_ = <<>>
    /\ waiters_mutex_ = NoThread
    /\ storage = "empty"
    /\ run_requested_ = FALSE
    /\ continuations_ = <<>>
    /\ continuations_mutex_ = NoThread
    /\ notified = {}
    /\ ext_notified = {}
    /\ posted = FALSE
    /\ exec_q = {}
    /\ pc = [t \in AllThreads |-> "idle"]
    /\ op = [t \in AllThreads |-> "none"]
    /\ arg = [t \in AllThreads |-> "none"]
    /\ ret = [t \in AllThreads |-> "none"]
    /\ ret_to = [t \in AllThreads |-> "idle"]
    /\ in_apply = [t \in AllThreads |-> FALSE]
    /\ handle = [t \in AllThreads |-> 0]
    /\ idx = [t \in AllThreads |-> 0]
    /\ last = [t \in AllThreads |-> 0]
    /\ ops = 0
    /\ budget = MaxOps
    /\ writes = 0
    /\ drains = 0
    /\ launches = 0
    /\ task_runs = 0
    /\ task_out = "none"
    /\ launched_by = "none"
    /\ ran = [f \in Fns |-> 0]
    /\ pushed = {}
    /\ moved_from = FALSE
    /\ destroyed = FALSE
    /\ NoRange
    /\ NoOther
    /\ is_stoppable \in BOOLEAN
    /\ stop_requested = FALSE
    /\ released = FALSE

NextStop ==
    \/ \E t \in Threads :
          \/ \E v \in Values : StartSetValue(t, v)
          \/ SetValueCheck(t)
          \/ SetValueStore(t)
          \/ SetValueMark(t)
          \/ \E e \in Errors : StartSetException(t, e)
          \/ SetExceptionMark(t)
          \/ StartSignalPromiseDestroyed(t)
          \/ SignalPromiseDestroyedCheck(t)
          \/ SignalPromiseDestroyedMark(t)
          \/ SignalPromiseDestroyedReturn(t)
          \/ RequestRunCas(t)
          \/ RequestRunDrain(t)
          \/ RequestRunLock(t)
          \/ RequestRunRedrain(t)
          \/ RequestRunDeferredCheck(t)
          \/ RequestRunDeferredLoop(t)
          \/ StartPush(t)
          \/ PushLock(t)
          \/ PushCheck(t)
          \/ PushRecord(t)
          \/ PushExecute(t)
          \/ \E k \in WaitKinds : StartWait(t, k)
          \/ WaitImplLock(t)
          \/ WaitImplRelock(t)
          \/ CvWake(t)
          \/ CvSpurious(t)
          \/ CvTimeout(t)
          \/ GetRead(t)
          \/ \E o \in TaskOutcomes : RunTask(t, o)
          \/ DestroyRequestStop(t)
          \/ DestroyMembers(t)
          \/ DestroyBase(t)
    \/ \E f \in Fns : ExecutorRun(f)

SpecStop == InitStop /\ [][NextStop]_vars

\* ------------------------------- continuations that attach continuations
\* The callables of Reentrant have a body that calls push(ex, Child) on the
\* list that runs them; the other callables do not touch the list.
Reentrant == {1}

Child == MaxPush + 1

\* The eager list (continuations_state<false>) with three threads.
InitReentrant ==
    /\ is_deferred = FALSE
    /\ inline_task = FALSE
    /\ before_ = "none"
    /\ status_ = InitialStatus(is_deferred)
    /\ except_ = "null"
    /\ external_waiters_ = <<>>
    /\ waiters_mutex_ = NoThread
    /\ storage = "empty"
    /\ run_requested_ = FALSE
    /\ continuations_ = <<>>
    /\ continuations_mutex_ = NoThread
    /\ notified = {}
    /\ ext_notified = {}
    /\ posted = FALSE
    /\ exec_q = {}
    /\ pc = [t \in AllThreads |-> "idle"]
    /\ op = [t \in AllThreads |-> "none"]
    /\ arg = [t \in AllThreads |-> "none"]
    /\ ret = [t \in AllThreads |-> "none"]
    /\ ret_to = [t \in AllThreads |-> "idle"]
    /\ in_apply = [t \in AllThreads |-> FALSE]
    /\ handle = [t \in AllThreads |-> 0]
    /\ idx = [t \in AllThreads |-> 0]
    /\ last = [t \in AllThreads |-> 0]
    /\ ops = 0
    /\ budget = MaxContOps
    /\ writes = 0
    /\ drains = 0
    /\ launches = 0
    /\ task_runs = 0
    /\ task_out = "none"
    /\ launched_by = "none"
    /\ ran = [f \in Fns \cup {Child} |-> 0]
    /\ pushed = {}
    /\ moved_from = FALSE
    /\ destroyed = FALSE
    /\ NotStoppable
    /\ NoRange
    /\ NoOther

\* The next callable of the list does not touch the list.
HeadIsPlain ==
    IF continuations_ = <<>> THEN TRUE ELSE Head(continuations_) \notin Reentrant

\* The first loop of request_run, on a callable that does not touch the list.
RequestRunDrainPlain(t) == HeadIsPlain /\ RequestRunDrain(t)

\* The second loop of request_run, on a callable that does not touch the list.
RequestRunRedrainPlain(t) == HeadIsPlain /\ RequestRunRedrain(t)

\* continuations_.pop()() in either loop of request_run(std::false_type), on a
\* callable whose body is push(ex, Child): the callable is popped and invoked,
\* and the thread is at the first statement of push, to return into the loop.
\* In the second loop the thread holds continuations_mutex_ meanwhile.
InvokeReentrant(t) ==
    /\ pc[t] \in {"rr_drain", "rr_redrain"}
    /\ continuations_ # <<>>
    /\ Head(continuations_) \in Reentrant
    /\ Invoke(Head(continuations_))
    /\ continuations_' = Tail(continuations_)
    /\ pc' = [pc EXCEPT ![t] = "p_lock"]
    /\ ret_to' = [ret_to EXCEPT ![t] = pc[t]]
    /\ arg' = [arg EXCEPT ![t] = Child]
    /\ UNCHANGED <<opvars, run_requested_, continuations_mutex_, exec_q, pushed,
                   cvvars, envvars, op, ret, in_apply, handle, idx, last, histvars>>

\* std::unique_lock<std::mutex> lock(continuations_mutex_) in push, on the
\* thread that owns continuations_mutex_: locking a std::mutex its caller owns
\* is undefined; the thread blocks for ever or the lock goes through.
RelockContinuations(t) ==
    /\ pc[t] = "p_lock"
    /\ continuations_mutex_ = t
    /\ \E o \in RelockOutcomes :
          IF o = "hang" THEN Goto(t, "hung") ELSE Goto(t, "p_check")
    /\ UNCHANGED <<opvars, contvars, cvvars, envvars, op, arg, ret, ret_to,
                   in_apply, handle, idx, last, histvars>>

NextReentrant ==
    \/ \E t \in AllThreads :
          \/ StartRequestRun(t)
          \/ RequestRunCas(t)
          \/ RequestRunDrainPlain(t)
          \/ RequestRunLock(t)
          \/ RequestRunRedrainPlain(t)
          \/ InvokeReentrant(t)
          \/ StartPush(t)
          \/ PushLock(t)
          \/ RelockContinuations(t)
          \/ PushCheck(t)
          \/ PushRecord(t)
          \/ PushExecute(t)
    \/ \E f \in Fns \cup {Child} : ExecutorRun(f)

SpecReentrant == InitReentrant /\ [][NextReentrant]_vars

\* ------------------------------------------- the list of external waiters
\* waiter_list is a small_vector and notify_when_ready_handle its iterator, a
\* position in contiguous storage: erase moves the later elements down, so a
\* handle taken before another registration was removed names what now sits
\* at its position. Three threads register and unregister on an eager state.
InitNotify ==
    /\ is_deferred = FALSE
    /\ inline_task = FALSE
    /\ before_ = "none"
    /\ status_ = InitialStatus(is_deferred)
    /\ except_ = "null"
    /\ external_waiters_ = <<>>
    /\ waiters_mutex_ = NoThread
    /\ storage = "empty"
    /\ run_requested_ = FALSE
    /\ continuations_ = <<>>
    /\ continuations_mutex_ = NoThread
    /\ notified = {}
    /\ ext_notified = {}
    /\ posted = FALSE
    /\ exec_q = {}
    /\ pc = [t \in AllThreads |-> "idle"]
    /\ op = [t \in AllThreads |-> "none"]
    /\ arg = [t \in AllThreads |-> "none"]
    /\ ret = [t \in AllThreads |-> "none"]
    /\ ret_to = [t \in AllThreads |-> "idle"]
    /\ in_apply = [t \in AllThreads |-> FALSE]
    /\ handle = [t \in AllThreads |-> 0]
    /\ idx = [t \in AllThreads |-> 0]
    /\ last = [t \in AllThreads |-> 0]
    /\ ops = 0
    /\ budget = MaxOps + 2
    /\ writes = 0
    /\ drains = 0
    /\ launches = 0
    /\ task_runs = 0
    /\ task_out = "none"
    /\ launched_by = "none"
    /\ ran = [f \in Fns |-> 0]
    /\ pushed = {}
    /\ moved_from = FALSE
    /\ destroyed = FALSE
    /\ NotStoppable
    /\ NoRange
    /\ NoOther

\* What erase(it) leaves of the list when `it` is at or past end(): undefined;
\* the list is left alone or loses its last element.
PastEndOutcomes == {"none", "last"}

\* unnotify_when_ready(it) with a handle that an earlier erase has left at or
\* past end().
UnnotifyPastEnd(t) ==
    /\ CanStart(t)
    /\ handle[t] > Len(external_waiters_)
    /\ waiters_mutex_ = NoThread
    /\ \E o \in PastEndOutcomes :
          external_waiters_' =
             IF o = "last" /\ external_waiters_ # <<>>
                THEN SubSeq(external_waiters_, 1, Len(external_waiters_) - 1)
                ELSE external_waiters_
    /\ handle' = [handle EXCEPT ![t] = 0]
    /\ op' = [op EXCEPT ![t] = "unnotify_when_ready"]
    /\ ret' = [ret EXCEPT ![t] = "void"]
    /\ ops' = ops + 1
    /\ UNCHANGED <<status_, except_, waiters_mutex_, storage, contvars, cvvars,
                   envvars, pc, arg, ret_to, in_apply, idx, last, writes, drains,
                   launches, taskvars, moved_from, destroyed>>

NextNotify ==
    \E t \in AllThreads :
        \/ StartNotifyWhenReady(t)
        \/ NotifyWhenReadyLock(t)
        \/ UnnotifyWhenReady(t)
        \/ UnnotifyPastEnd(t)

SpecNotify == InitNotify /\ [][NextNotify]_vars

\* ----------------------------------------------------------- find_if_not
\* The range is the sequence of f's results on its elements; an iterator is a
\* position 1 .. Len + 1 (last), and a copy of an iterator stays valid when
\* another copy moves.
Inputs == UNION {[1..n -> BOOLEAN] : n \in 0..MaxLen}

\* std::find_if_not(first, last, f): the first position whose element does not
\* satisfy f, or last.
StdFindIfNot(s, first, lst) ==
    LET fails == {i \in first..(lst - 1) : ~s[i]}
    IN IF fails = {} THEN lst ELSE CHOOSE i \in fails : \A j \in fails : i <= j

\* p(first, last): any point that leaves a non-empty left half; last for an
\* empty range.
PartitionPoints(first, lst) ==
    IF first = lst THEN {lst} ELSE (first + 1)..lst

\* middle == last || std::is_same_v<E, inline_executor> ||
\* ranges::forward_iterator<I>
RunsSequentially(middle, lst, inline, forward) ==
    middle = lst \/ inline \/ forward

\* A combination that always takes the right half's answer.
Combine_mut(lhs, middle, rhs) == rhs

\* if (lhs != middle) return lhs; else return <the result of the right half>;
Combine(lhs, middle, rhs) == IF lhs # middle THEN lhs ELSE rhs

\* find_if_not_fn::main on [first, last): every result it can return, with the
\* partition point of the call and what became of its right-half task: started
\* (rhs.get()) or cancelled and recomputed with make_inline_executor(). The
\* recursive calls go through operator(), which calls main.
RECURSIVE MainOutcomes(_, _, _, _, _)
MainOutcomes(s, first, lst, inline, forward) ==
    UNION {
        IF RunsSequentially(middle, lst, inline, forward)
           THEN {[ret |-> StdFindIfNot(s, first, lst), middle |-> middle,
                  path |-> "sequential"]}
           ELSE LET lhs == {o.ret : o \in MainOutcomes(s, first, middle, inline, forward)}
                    started == {o.ret : o \in MainOutcomes(s, middle, lst, inline, forward)}
                    inl == {o.ret : o \in MainOutcomes(s, middle, lst, TRUE, forward)}
                IN {[ret |-> Combine(l, middle, r), middle |-> middle, path |-> "started"] :
                       l \in lhs, r \in started}
                   \cup
                   {[ret |-> Combine(l, middle, r), middle |-> middle, path |-> "cancelled"] :
                       l \in lhs, r \in inl}
        : middle \in PartitionPoints(first, lst)}

InitFind ==
    /\ NoOperationState
    /\ NoRange
    /\ NoChain
    /\ find \in [input : Inputs, forward : BOOLEAN, inline : BOOLEAN, pc : {"call"},
                  middle : {0}, path : {"none"}, ret : {0}]

\* find_if_not(ex, p, first, last, f) on the whole range.
FindIfNotMain ==
    /\ find.pc = "call"
    /\ \E o \in MainOutcomes(find.input, 1, Len(find.input) + 1, find.inline,
                              find.forward) :
          find' = [find EXCEPT !.pc = "done", !.ret = o.ret, !.middle = o.middle,
                               !.path = o.path]
    /\ UNCHANGED <<opvars, contvars, cvvars, is_deferred, inline_task, before_, budget,
                   posted, rangevars, stopvars, thvars, histvars, chain>>

NextFind == FindIfNotMain

SpecFind == InitFind /\ [][NextFind]_vars

\* ------------------------------------------------- chains of continuations
\* Three eager continuable states p, q, r (1, 2, 3). The callable k in 2..3
\* completes state k (set_value on it) and is attached to the list of state
\* k - 1 by `then` (push). One thread completes p, two attach, two wait, and
\* the executor's thread runs what push submits. A thread is a stack of calls;
\* a continuation runs as a nested call of the thread that drains the list.
ChainStates == 1..3

ChainThreads == {"c", "a2", "a3", "e", "w1", "w2"}

ChainWaitKinds == {"wait", "wait_for"}

Frame(f, s, k, l) == [f |-> f, s |-> s, k |-> k, pc |-> l]

Stack(t) == chain.stack[t]

Top(t) == Stack(t)[Len(Stack(t))]

At(t, f, l) == IF Stack(t) = <<>> THEN FALSE ELSE Top(t).f = f /\ Top(t).pc = l

\* The thread's stack with the innermost call at label l.
WithPc(t, l) == [Stack(t) EXCEPT ![Len(Stack(t))].pc = l]

\* The innermost call returns.
Popped(t) == SubSeq(Stack(t), 1, Len(Stack(t)) - 1)

\* Threads blocked in waiter_.wait / waiter_.wait_until of state i.
ChainBlocked(i) ==
    {u \in ChainThreads : At(u, "wait", "w_blocked") \/ At(u, "wait_for", "w_blocked")}
    \cap {u \in ChainThreads : IF Stack(u) = <<>> THEN FALSE ELSE Top(u).s = i}

InitChain ==
    /\ NoOperationState
    /\ NoRange
    /\ NoFind
    /\ chain = [st |-> [i \in ChainStates |-> "launched"],
                wm |-> [i \in ChainStates |-> NoThread],
                cm |-> [i \in ChainStates |-> NoThread],
                rr |-> [i \in ChainStates |-> FALSE],
                cl |-> [i \in ChainStates |-> <<>>],
                nt |-> [i \in ChainStates |-> {}],
                ex |-> {},
                stack |-> [t \in ChainThreads |-> <<>>],
                started |-> {},
                ret |-> [t \in ChainThreads |-> "none"]]

corevars == <<opvars, contvars, cvvars, is_deferred, inline_task, before_, budget,
              posted, rangevars, stopvars, thvars, histvars>>

\* The promise of p is fulfilled: set_value on state 1.
ChainStartSetValue ==
    /\ "c" \notin chain.started
    /\ chain' = [chain EXCEPT !.started = @ \cup {"c"},
                              !.stack["c"] = <<Frame("set_value", 1, 0, "mark")>>]
    /\ UNCHANGED <<corevars, find>>

\* then() on state k - 1: push(ex, <complete state k>) on its list.
ChainStartThen(a, k) ==
    /\ a \notin chain.started
    /\ chain' = [chain EXCEPT !.started = @ \cup {a},
                              !.stack[a] = <<Frame("push", k - 1, k, "p_lock")>>]
    /\ UNCHANGED <<corevars, find>>

\* wait() or wait_for(d) on state i.
ChainStartWait(w, i, kind) ==
    /\ w \notin chain.started
    /\ chain' = [chain EXCEPT !.started = @ \cup {w},
                              !.stack[w] = <<Frame(kind, i, 0, "w_lock")>>]
    /\ UNCHANGED <<corevars, find>>

\* mark_ready(): the lock, mark_ready_unsafe (notify_all only if the status
\* was waiting), unlock; then request_run on the state's list.
ChainMarkReady(t) ==
    /\ At(t, "set_value", "mark")
    /\ LET i == Top(t).s IN
          /\ chain.wm[i] = NoThread
          /\ chain' = [chain EXCEPT
                          !.st[i] = "ready",
                          !.nt[i] = IF chain.st[i] = "waiting" THEN ChainBlocked(i) ELSE @,
                          !.stack[t] = WithPc(t, "rr_cas")]
    /\ UNCHANGED <<corevars, find>>

\* run_requested_.compare_exchange_strong(prev_request, true)
ChainRequestRunCas(t) ==
    /\ At(t, "set_value", "rr_cas")
    /\ LET i == Top(t).s IN
          chain' = IF ~chain.rr[i]
                      THEN [chain EXCEPT !.rr[i] = TRUE, !.stack[t] = WithPc(t, "rr_drain")]
                      ELSE [chain EXCEPT !.stack[t] = Popped(t)]
    /\ UNCHANGED <<corevars, find>>

\* while (!continuations_.empty()) continuations_.pop()(); without the mutex.
\* The callable completes the next state: a nested set_value.
ChainRequestRunDrain(t) ==
    /\ At(t, "set_value", "rr_drain")
    /\ LET i == Top(t).s IN
          chain' = IF chain.cl[i] = <<>>
                      THEN [chain EXCEPT !.stack[t] = WithPc(t, "rr_lock")]
                      ELSE [chain EXCEPT
                               !.cl[i] = Tail(@),
                               !.stack[t] = Append(Stack(t),
                                   Frame("set_value", Head(chain.cl[i]), 0, "mark"))]
    /\ UNCHANGED <<corevars, find>>

\* std::unique_lock<std::mutex> lock(continuations_mutex_)
ChainRequestRunLock(t) ==
    /\ At(t, "set_value", "rr_lock")
    /\ LET i == Top(t).s IN
          /\ chain.cm[i] = NoThread
          /\ chain' = [chain EXCEPT !.cm[i] = t, !.stack[t] = WithPc(t, "rr_redrain")]
    /\ UNCHANGED <<corevars, find>>

\* The second loop, under the mutex; then return true.
ChainRequestRunRedrain(t) ==
    /\ At(t, "set_value", "rr_redrain")
    /\ LET i == Top(t).s IN
          chain' = IF chain.cl[i] = <<>>
                      THEN [chain EXCEPT !.cm[i] = NoThread, !.stack[t] = Popped(t)]
                      ELSE [chain EXCEPT
                               !.cl[i] = Tail(@),
                               !.stack[t] = Append(Stack(t),
                                   Frame("set_value", Head(chain.cl[i]), 0, "mark"))]
    /\ UNCHANGED <<corevars, find>>

\* push: std::unique_lock<std::mutex> lock(continuations_mutex_)
ChainPushLock(t) ==
    /\ At(t, "push", "p_lock")
    /\ LET i == Top(t).s IN
          /\ chain.cm[i] = NoThread
          /\ chain' = [chain EXCEPT !.cm[i] = t, !.stack[t] = WithPc(t, "p_check")]
    /\ UNCHANGED <<corevars, find>>

\* if (!is_run_requested()) ... else { lock.unlock(); ...
ChainPushCheck(t) ==
    /\ At(t, "push", "p_check")
    /\ LET i == Top(t).s IN
          chain' = IF ~chain.rr[i]
                      THEN [chain EXCEPT !.stack[t] = WithPc(t, "p_push")]
                      ELSE [chain EXCEPT !.cm[i] = NoThread,
                                         !.stack[t] = WithPc(t, "p_exec")]
    /\ UNCHANGED <<corevars, find>>

\* push_continuation(continuations_, fn); return true;
ChainPushRecord(t) ==
    /\ At(t, "push", "p_push")
    /\ LET i == Top(t).s IN
          chain' = [chain EXCEPT !.cl[i] = Append(@, Top(t).k),
                                 !.cm[i] = NoThread,
                                 !.stack[t] = Popped(t)]
    /\ UNCHANGED <<corevars, find>>

\* execute(ex, fn); return false;
ChainPushExecute(t) ==
    /\ At(t, "push", "p_exec")
    /\ chain' = [chain EXCEPT !.ex = @ \cup {Top(t).k}, !.stack[t] = Popped(t)]
    /\ UNCHANGED <<corevars, find>>

\* The executor's thread runs a callable it was given.
ChainExecutorRun ==
    /\ Stack("e") = <<>>
    /\ \E k \in chain.ex :
          chain' = [chain EXCEPT !.ex = @ \ {k},
                                 !.stack["e"] = <<Frame("set_value", k, 0, "mark")>>]
    /\ UNCHANGED <<corevars, find>>

\* wait_impl on an eager state, from the lock to the wait on waiter_, which
\* gives the lock up: ready at once, or status_ = status::waiting and blocked.
ChainWaitLock(t) ==
    /\ \E kind \in ChainWaitKinds : At(t, kind, "w_lock")
    /\ LET i == Top(t).s IN
          /\ chain.wm[i] = NoThread
          /\ chain' = IF chain.st[i] = "ready"
                         THEN [chain EXCEPT !.stack[t] = Popped(t), !.ret[t] = "ready"]
                         ELSE [chain EXCEPT !.st[i] = "waiting",
                                            !.nt[i] = @ \ {t},
                                            !.stack[t] = WithPc(t, "w_blocked")]
    /\ UNCHANGED <<corevars, find>>

\* A notified waiter takes the lock again and tests is_ready().
ChainCvWake(t) ==
    /\ \E kind \in ChainWaitKinds : At(t, kind, "w_blocked")
    /\ LET i == Top(t).s IN
          /\ t \in chain.nt[i]
          /\ chain.wm[i] = NoThread
          /\ chain' = IF chain.st[i] = "ready"
                         THEN [chain EXCEPT !.nt[i] = @ \ {t},
                                            !.stack[t] = Popped(t), !.ret[t] = "ready"]
                         ELSE [chain EXCEPT !.nt[i] = @ \ {t}]
    /\ UNCHANGED <<corevars, find>>

\* A wakeup without notification.
ChainCvSpurious(t) ==
    /\ \E kind \in ChainWaitKinds : At(t, kind, "w_blocked")
    /\ LET i == Top(t).s IN
          /\ t \notin chain.nt[i]
          /\ chain.wm[i] = NoThread
          /\ chain.st[i] = "ready"
          /\ chain' = [chain EXCEPT !.stack[t] = Popped(t), !.ret[t] = "ready"]
    /\ UNCHANGED <<corevars, find>>

\* wait_until(lk, *timeout_time, pred) reaches the deadline: ready if pred(),
\* else op.status_ = status::launched and timeout.
ChainCvTimeout(t) ==
    /\ At(t, "wait_for", "w_blocked")
    /\ LET i == Top(t).s IN
          /\ chain.wm[i] = NoThread
          /\ chain' = IF chain.st[i] = "ready"
                         THEN [chain EXCEPT !.nt[i] = @ \ {t},
                                            !.stack[t] = Popped(t), !.ret[t] = "ready"]
                         ELSE [chain EXCEPT !.st[i] = "launched",
                                            !.nt[i] = @ \ {t},
                                            !.stack[t] = Popped(t), !.ret[t] = "timeout"]
    /\ UNCHANGED <<corevars, find>>

\* A step of a call that has started, other than wakeups and deadlines.
ChainStep(t) ==
    \/ ChainMarkReady(t)
    \/ ChainRequestRunCas(t)
    \/ ChainRequestRunDrain(t)
    \/ ChainRequestRunLock(t)
    \/ ChainRequestRunRedrain(t)
    \/ ChainPushLock(t)
    \/ ChainPushCheck(t)
    \/ ChainPushRecord(t)
    \/ ChainPushExecute(t)
    \/ ChainWaitLock(t)
    \/ ChainCvWake(t)

\* The producer and the attaching threads do make their calls.
ChainProducers ==
    \/ ChainStartSetValue
    \/ ChainStartThen("a2", 2)
    \/ ChainStartThen("a3", 3)
    \/ ChainExecutorRun

NextChain ==
    \/ ChainProducers
    \/ \E w \in {"w1", "w2"}, i \in ChainStates, kind \in ChainWaitKinds :
          ChainStartWait(w, i, kind)
    \/ \E t \in ChainThreads :
          \/ ChainStep(t)
          \/ ChainCvSpurious(t)
          \/ ChainCvTimeout(t)

\* A step that the scheduler, the executor or the clock brings about: a call
\* in progress goes on, the producers make their calls, a notified waiter wakes
\* up and a deadline passes. Spurious wakeups and further waits are possible,
\* not guaranteed.
ChainProgress ==
    \/ ChainProducers
    \/ \E t \in ChainThreads : ChainStep(t) \/ ChainCvTimeout(t)

\* Every behaviour is finite (each thread makes a bounded number of steps), so
\* weak fairness of the union lets no thread starve.
FairChain == WF_vars(ChainProgress)

SpecChain == InitChain /\ [][NextChain]_vars /\ FairChain

\* ================================================================ claims
AllIdle == \A t \in AllThreads : Idle(t)

Setters == {"set_value", "set_exception"}

Rejected(t) == ret[t] = "promise_already_satisfied"

\* C1: under any interleaving of concurrent set_value, set_exception and
\* signal_promise_destroyed calls on one (eager) state, at most one call writes
\* the outcome, and a Ready state never holds both a value and an error.
C1_SingleOutcomeWrite ==
    ~is_deferred =>
        /\ writes <= 1
        /\ ~(is_ready /\ storage # "empty" /\ except_ # "null")

\* C2: a set_value or set_exception call that finds the status Ready raises
\* promise_already_satisfied in its first step and changes neither the status,
\* the stored value, the stored exception nor the continuation list (no second
\* run, no callable invoked).
C2_RejectedWhenReady ==
    [][\A t \in Threads :
          ( /\ op[t] \in Setters
            /\ pc[t] \in {"sv_check", "se_mark"}
            /\ is_ready
            /\ pc'[t] # pc[t] )
          => /\ pc'[t] = "idle"
             /\ ret'[t] = "promise_already_satisfied"
             /\ UNCHANGED <<status_, storage, except_, run_requested_,
                            continuations_, drains, ran, writes>>]_vars

\* C2 witness: the state was completed and its continuations were run once;
\* a later set_value and a later set_exception were both rejected.
C2_Witness ==
    /\ is_ready /\ drains = 1 /\ writes = 1 /\ AllIdle
    /\ \E t, u \in Threads :
          /\ op[t] = "set_value" /\ Rejected(t)
          /\ op[u] = "set_exception" /\ Rejected(u)

\* Where a callable handed to push is: held by the pushing thread, recorded in
\* the list, in the executor, or invoked (once per invocation).
Occurrences(f) ==
    Cardinality({t \in AllThreads :
                    pc[t] \in {"p_lock", "p_check", "p_push", "p_exec"} /\ arg[t] = f})
    + Cardinality({i \in DOMAIN continuations_ : continuations_[i] = f})
    + (IF f \in exec_q THEN 1 ELSE 0)
    + ran[f]

\* C3: on an eager continuation list, under any interleaving of push and
\* request_run, every callable passed to push is in exactly one place at any
\* time, is never invoked twice, and has been invoked exactly once when the run
\* was requested, all calls have returned and the executor is empty.
C3_EachCallableOnce ==
    ~is_always_deferred =>
        /\ \A f \in pushed : Occurrences(f) = 1
        /\ \A f \in Fns : ran[f] <= 1
        /\ (run_requested_ /\ AllIdle /\ exec_q = {})
              => \A f \in pushed : ran[f] = 1

\* C3 witness: one push recorded its callable and one handed it to the
\* executor; the run was requested and both callables have run once.
C3_Witness ==
    /\ ~is_always_deferred /\ run_requested_ /\ AllIdle /\ exec_q = {}
    /\ pushed = Fns
    /\ \A f \in Fns : ran[f] = 1
    /\ \E t, u \in AllThreads :
          /\ op[t] = "push" /\ ret[t] = "true"
          /\ op[u] = "push" /\ ret[u] = "false"

DrainLabels == {"rr_drain", "rr_lock", "rr_redrain", "rd_loop"}

\* C4: over all request_run calls on one continuation state (direct calls and
\* the destructor's), at most one wins the latch, at most one thread is ever
\* draining, and at most one call returns true.
C4_AtMostOneRunSucceeds ==
    /\ drains <= 1
    /\ Cardinality({t \in AllThreads : pc[t] \in DrainLabels}) <= 1
    /\ Cardinality({t \in AllThreads : op[t] = "request_run" /\ ret[t] = "true"}) <= 1

\* C4 witness: one request_run returned true, another returned false, and the
\* destructor's call has run as well.
C4_Witness ==
    /\ destroyed /\ AllIdle /\ drains = 1
    /\ \E t, u \in AllThreads :
          /\ op[t] = "request_run" /\ ret[t] = "true"
          /\ op[u] = "request_run" /\ ret[u] = "false"

Rank(s) ==
    CASE s = "deferred" -> 0
      [] s = "launched" -> 1
      [] s = "waiting" -> 2
      [] s = "ready" -> 3

\* C5: no step of wait, wait_for, wait_until, get, notify_when_ready,
\* set_value, set_exception or signal_promise_destroyed moves the status to a
\* lower rank in the order Deferred < Launched < Waiting < Ready.
C5_StatusMonotonic == [][Rank(status_') >= Rank(status_)]_vars

\* C6: once the status is Ready, no step of any operation changes it.
C6_ReadyTerminal == [][status_ = "ready" => status_' = "ready"]_vars

\* C7: in every reachable state the outcome slot holds a value or an error
\* exactly when the status is Ready.
C7_OutcomeIffReady == (storage # "empty" \/ except_ # "null") <=> is_ready

\* C8: whenever a call to wait (mutable or const, from any initial status)
\* returns normally, the status is Ready at that moment.
C8_WaitReturnsReady ==
    [][\A t \in Threads :
          ( /\ op[t] \in {"wait", "wait_c"}
            /\ pc[t] # "idle"
            /\ pc'[t] = "idle"
            /\ ~Rejected(t)' )
          => status_' = "ready"]_vars

\* C9: on every transition of a state to Ready, the internal condition
\* variable and every registered external condition variable are notified, so
\* every thread blocked on the internal one is woken.
C9_ReadyNotifiesAll ==
    [][(~is_ready /\ status_' = "ready" /\ moved_from' = moved_from)
          => /\ Blocked \subseteq notified'
             /\ Range(external_waiters_) \subseteq ext_notified']_vars

\* C10: a timed wait that reaches its deadline while the state is not Ready
\* returns timeout and sets the status to Launched, leaving the outcome, the
\* continuation list and the registered external condition variables as they
\* were; it blocks with the status Waiting; timeout is returned in no other
\* way; and it returns ready only when the status is Ready at the return.
C10_TimedWaitTimeout ==
    [][\A t \in Threads :
          IsTimed(t) =>
            /\ (CvTimeout(t) /\ ~is_ready)
                 => /\ pc'[t] = "idle"
                    /\ ret'[t] = "timeout"
                    /\ status_ \in {"waiting", "launched"}
                    /\ status_' = "launched"
                    /\ UNCHANGED <<storage, except_, continuations_,
                                   run_requested_, external_waiters_, ran>>
            /\ (pc[t] # "w_blocked" /\ pc'[t] = "w_blocked")
                 => status_' = "waiting"
            /\ (pc[t] # "idle" /\ pc'[t] = "idle" /\ ret'[t] = "timeout")
                 => (pc[t] = "w_blocked" /\ ~is_ready)
            /\ (pc[t] # "idle" /\ pc'[t] = "idle" /\ ret'[t] = "ready")
                 => status_' = "ready"]_vars

\* C10 witness: a wait_for has timed out on a state that has a registered
\* external condition variable and a recorded continuation; the status is
\* Launched and nothing was stored or run.
C10_Witness ==
    /\ status_ = "launched" /\ storage = "empty" /\ except_ = "null"
    /\ external_waiters_ # <<>> /\ continuations_ # <<>>
    /\ \A f \in Fns : ran[f] = 0
    /\ \E t \in Threads : op[t] = "wait_for" /\ ret[t] = "timeout" /\ Idle(t)

\* C11: over any interleaving of wait, wait_for, get and notify_when_ready
\* (timed-out and retried waits included) post_deferred is invoked at most
\* once, the stored task runs at most once, and the status never returns to
\* Deferred once it has left it.
C11_LaunchAtMostOnce ==
    /\ [](launches <= 1 /\ task_runs <= 1)
    /\ [][status_ # "deferred" => status_' # "deferred"]_vars

\* C11 witness: on a deferred state a wait_for timed out and another thread
\* registered with notify_when_ready; one launch only.
C11_Witness ==
    /\ is_deferred /\ launches = 1 /\ ~is_deferred_
    /\ \E t, u \in Threads :
          /\ op[t] = "wait_for" /\ ret[t] = "timeout"
          /\ op[u] = "notify_when_ready" /\ ret[u] = "handle"

MutableWaits == {"wait", "wait_for", "get"}

\* C12: the stored task of a deferred state is never invoked (nor submitted)
\* while the status is Deferred, and when it has been invoked, the launch was
\* made by a mutable wait, wait_for, wait_until or get.
C12_LazyUntilMutableWait ==
    /\ is_deferred_ => (task_runs = 0 /\ ~posted)
    /\ task_runs > 0 => launched_by \in MutableWaits

\* C12 amended: as C12, where the launch was made by a mutable wait, wait_for,
\* wait_until or get, or by notify_when_ready; const waits never launch.
C12_LazyUntilWaitOrNotify ==
    /\ is_deferred_ => (task_runs = 0 /\ ~posted)
    /\ (task_runs > 0 \/ posted)
          => launched_by \in MutableWaits \cup {"notify_when_ready"}

\* C12 witness: a const wait returned on the Deferred state without running
\* the task, then a get launched it and the task ran once.
C12_Witness ==
    /\ is_deferred /\ task_runs = 1 /\ launched_by = "get"
    /\ \E u \in Threads : op[u] = "wait_c" /\ ret[u] = "deferred"

\* C13: on a deferred state the launch is made once and the task runs once,
\* inline on the waiting thread when there is no executor, and every untimed
\* wait (wait or get) that a thread starts eventually returns.
C13_UntimedWaitReturns ==
    /\ [](launches <= 1 /\ task_runs <= 1)
    /\ \A t \in Threads :
          (op[t] \in {"wait", "get"} /\ pc[t] # "idle") ~> (pc[t] = "idle")

\* The stored outcome is the one the task produced.
TaskCompleted ==
    /\ task_runs = 1
    /\ is_ready
    /\ IF task_out \in Values
          THEN storage = task_out /\ except_ = "null"
          ELSE except_ = task_out

\* C14: for a future made by async or schedule, when wait() has returned the
\* task has run exactly once and its outcome is stored, and get() returns the
\* value the task returned (or raises what it threw).
C14_LaunchedTaskRunsOnce ==
    \A t \in Threads :
       /\ (op[t] = "wait" /\ pc[t] = "idle") => TaskCompleted
       /\ (op[t] = "get" /\ pc[t] = "idle")
             => (TaskCompleted /\ ret[t] = task_out)

\* C14 witness: one thread's wait() has returned and another thread's get()
\* has returned the value the task produced.
C14_Witness ==
    /\ task_out \in Values
    /\ \E t, u \in Threads :
          /\ op[t] = "wait" /\ pc[t] = "idle" /\ ret[t] = "ready"
          /\ op[u] = "get" /\ pc[u] = "idle" /\ ret[u] = task_out

\* C15: on every transition of the state to Ready made by set_value,
\* set_exception or signal_promise_destroyed, the completing thread goes on to
\* call request_run on the continuation list.
C15_ReadyThenRequestRun ==
    [][(~is_ready /\ is_ready' /\ moved_from' = moved_from)
          => \E t \in AllThreads :
                pc[t] # pc'[t] /\ pc'[t] = RequestRunEntry]_vars

\* A step in which a callable taken from the recorded list is invoked by the
\* request_run of a completion or of the destructor.
RecordedInvoked ==
    /\ ran' # ran
    /\ exec_q' = exec_q
    /\ \E t \in AllThreads : pc[t] \in DrainLabels /\ op[t] # "request_run"

\* C16: whenever a recorded continuation is invoked, by the request_run that
\* follows a completion or by the destructor's, the status is already Ready
\* and the outcome is set.
C16_ReadyBeforeContinuations ==
    [][RecordedInvoked
          => (is_ready /\ (storage # "empty" \/ except_ # "null"))]_vars

PushReturns(t, r) ==
    /\ op[t] = "push" /\ pc[t] # "idle"
    /\ pc'[t] = "idle" /\ ret'[t] = r

\* C17: push reads the latch once, under the mutex. If it is false the call
\* appends fn to the recorded list, runs nothing and returns true; if it is
\* true the call hands fn to the executor, leaves the recorded list as it is,
\* runs nothing itself and returns false. push returns in no other way.
C17_PushRecordsOrSubmits ==
    [][\A t \in AllThreads :
          /\ (pc[t] = "p_check" /\ pc'[t] # "p_check")
                => (pc'[t] = IF run_requested_ THEN "p_exec" ELSE "p_push")
          /\ (op[t] = "push" /\ pc[t] # "idle" /\ pc'[t] = "idle")
                => ret'[t] \in {"true", "false"}
          /\ PushReturns(t, "true")
                => /\ pc[t] = "p_push"
                   /\ continuations_' = Append(continuations_, arg[t])
                   /\ UNCHANGED <<exec_q, ran>>
          /\ PushReturns(t, "false")
                => /\ pc[t] = "p_exec"
                   /\ exec_q' = exec_q \cup {arg[t]}
                   /\ UNCHANGED <<continuations_, ran>>]_vars

\* C17 witness: a push made before the run was requested returned true, and a
\* push made after it returned false with its callable at the executor, not
\* yet run.
C17_Witness ==
    /\ run_requested_
    /\ \E t, u \in AllThreads :
          /\ op[t] = "push" /\ Idle(t) /\ ret[t] = "true"
          /\ op[u] = "push" /\ Idle(u) /\ ret[u] = "false"
          /\ arg[u] \in exec_q /\ ran[arg[u]] = 0

PushOps == {"push", "push_no_state"}

\* A step in which a call to push returns.
PushCallReturns(t) ==
    /\ op'[t] \in PushOps
    /\ pc'[t] = "idle"
    /\ pc[t] # "idle" \/ ops' # ops

\* A push waits for the mutex while its owner runs recorded continuations.
PushWaitsForContinuations ==
    \E t, u \in AllThreads :
       /\ pc[t] = "p_lock"
       /\ continuations_mutex_ = u
       /\ pc[u] = "rr_redrain" /\ continuations_ # <<>>

\* C19: a call to push never waits for continuations that are running, and
\* when it returns fn is recorded in the list or has been given to the
\* executor, also on a source that has no continuation state.
C19_PushRecordsOrSubmitsAlways ==
    /\ []~PushWaitsForContinuations
    /\ [][\A t \in AllThreads :
             PushCallReturns(t)
                => (arg'[t] \in Range(continuations_') \/ arg'[t] \in exec_q')]_vars

\* C20: a state that is Ready (and was not moved from) holds an outcome, and
\* the outcome is not written while the status is Ready: every write of the
\* value or the exception precedes the store of Ready, so a thread that reads
\* the outcome after it saw is_ready() reads what the completing thread wrote.
C20_OutcomeWrittenBeforeReady ==
    /\ []((is_ready /\ ~moved_from) => (storage # "empty" \/ except_ # "null"))
    /\ [][(is_ready /\ moved_from' = moved_from)
             => UNCHANGED <<storage, except_>>]_vars

\* C21: signal_promise_destroyed that finds the state Ready returns and changes
\* neither status, value nor exception; when it marks a state that is not
\* Ready the state becomes Ready holding broken_promise and no value is
\* written; a get() that reads a state holding broken_promise rethrows it.
C21_BrokenPromise ==
    [][\A t \in Threads :
          /\ (pc[t] = "spd_check" /\ is_ready /\ pc'[t] # pc[t])
                => /\ pc'[t] = "idle" /\ ret'[t] = "void"
                   /\ UNCHANGED <<status_, storage, except_, writes>>
          /\ (pc[t] = "spd_mark" /\ ~is_ready /\ pc'[t] # pc[t])
                => /\ status_' = "ready" /\ except_' = "broken_promise"
                   /\ UNCHANGED storage
          /\ (pc[t] = "g_read" /\ except_ = "broken_promise" /\ pc'[t] # pc[t])
                => (pc'[t] = "idle" /\ ret'[t] = "broken_promise")]_vars

\* C21 witness: the promise was destroyed on a state that was not Ready, a
\* get() rethrew broken_promise, and a second signal_promise_destroyed
\* returned on the Ready state.
C21_Witness ==
    /\ is_ready /\ except_ = "broken_promise" /\ storage = "empty"
    /\ ops = 3 /\ writes = 1
    /\ \E t, u \in Threads :
          /\ op[t] = "signal_promise_destroyed" /\ Idle(t) /\ ret[t] = "void"
          /\ op[u] = "get" /\ Idle(u) /\ ret[u] = "broken_promise"

\* Two get() calls that have returned.
GetReturned(t) == op[t] = "get" /\ Idle(t) /\ ret[t] # "none"

\* The outcome the state holds is the one fn produced: its value and no
\* exception, or its exception and no value.
HoldsTaskOutcome ==
    /\ task_out \in Values => (storage = task_out /\ except_ = "null")
    /\ task_out \in Errors => (except_ = task_out /\ storage = "empty")

\* C22: on a deferred state (completed by apply alone, not moved from) the
\* outcome is written at most once and never changes afterwards; the step of
\* apply that makes the state Ready leaves it holding the value fn returned or
\* the exception fn threw; every get() that returns yields that outcome, so
\* repeated get() calls agree.
C22_ApplyCompletesOnce ==
    [][(is_deferred /\ ~moved_from') =>
          /\ writes' <= 1
          /\ (~is_ready /\ is_ready') => (task_runs' = 1 /\ writes' = 1 /\ HoldsTaskOutcome')
          /\ is_ready => UNCHANGED <<storage, except_>>
          /\ \A t \in Threads : GetReturned(t)' => ret'[t] = task_out']_vars

\* C22 witness: the task ran once and two get() calls returned its outcome.
C22_Witness ==
    /\ is_deferred /\ ~moved_from /\ task_runs = 1
    /\ \E t, u \in Threads : t # u /\ GetReturned(t) /\ GetReturned(u)

\* C23: a get_exception_ptr or throw_internal_exception that finds the state
\* not Ready raises promise_uninitialized and leaves status and outcome as
\* they were; a get_exception_ptr that finds it Ready returns the stored
\* exception pointer, again without changing the state.
C23_ExceptionPtr ==
    [][\A t \in Threads :
          (pc[t] = "gep_lock" /\ pc'[t] # pc[t]) =>
             /\ pc'[t] = "idle"
             /\ UNCHANGED <<status_, storage, except_, writes>>
             /\ ~is_ready => ret'[t] = "promise_uninitialized"
             /\ (is_ready /\ op[t] = "get_exception_ptr") => ret'[t] = except_]_vars

\* C23 witness: one call was refused on a state that was not Ready and a
\* later one returned the stored exception of the Ready state.
C23_Witness ==
    /\ is_ready /\ except_ \in Errors
    /\ \E t, u \in Threads :
          /\ op[t] \in ExceptionGetters /\ Idle(t) /\ ret[t] = "promise_uninitialized"
          /\ op[u] = "get_exception_ptr" /\ Idle(u) /\ ret[u] = except_

\* C24: a const wait_for / wait_until that finds the state Deferred returns
\* deferred in that step, without launching the task, changing the status or
\* registering a waiter; a mutable wait, wait_for, wait_until or get never
\* returns deferred.
C24_ConstTimedWaitDeferred ==
    [][\A t \in Threads :
          /\ (pc[t] = "w_lock" /\ op[t] = "wait_for_c" /\ is_deferred_
                 /\ pc'[t] # pc[t])
                => /\ pc'[t] = "idle" /\ ret'[t] = "deferred"
                   /\ UNCHANGED <<status_, launches, task_runs, posted,
                                  external_waiters_, waiters_mutex_>>
          /\ (op[t] \in MutableWaits /\ ~Idle(t) /\ pc'[t] = "idle")
                => ret'[t] # "deferred"]_vars

\* C24 witness: a const timed wait returned deferred, and a mutable timed
\* wait on the same deferred state, which launched it, returned as well.
C24_Witness ==
    /\ is_deferred /\ launches = 1 /\ launched_by = "wait_for"
    /\ \E t, u \in Threads :
          /\ op[t] = "wait_for_c" /\ Idle(t) /\ ret[t] = "deferred"
          /\ op[u] = "wait_for" /\ Idle(u) /\ ret[u] \in {"ready", "timeout"}

\* Positions where a thread is suspended until a state (this one or the
\* parent) becomes ready.
SuspendedForReady(t) ==
    \/ pc[t] = "w_blocked"
    \/ pc[t] \in {"w_parent", "n_parent"} /\ before_ = "pending"

\* C25: only wait, wait_for, wait_until and get suspend their caller until a
\* state becomes Ready: a thread suspended for this state or for the parent
\* is inside one of them, never inside notify_when_ready or another call.
C25_OnlyWaitsSuspend ==
    \A t \in Threads : SuspendedForReady(t) => op[t] \in WaitKinds

\* Positions inside continuations.request_run().
RequestRunLabels == {"rr_cas", "rr_drain", "rr_lock", "rr_redrain", "rd_check", "rd_loop"}

\* C26: request_run is entered only after mark_ready / mark_exception gave the
\* waiter mutex back: no thread is inside request_run, running continuations,
\* while it owns waiters_mutex_.
C26_RequestRunOutsideWaiterLock ==
    \A t \in AllThreads : pc[t] \in RequestRunLabels => waiters_mutex_ # t

\* C27: the iterator-range wait_for_all_for / wait_for_all_until always
\* returns: eventually the call has returned, with ready only when every
\* future of the range is ready and with timeout only when the scan met a
\* future that was not ready.
C27_WaitForAllTerminates ==
    <>(/\ scan.pc = "done"
       /\ scan.ret = "ready" => \A i \in DOMAIN inputs : InputReady(i)
       /\ scan.ret = "timeout" => (scan.it <= Len(inputs) /\ ~scan.all_ready))

\* C28: the aggregate of when_all is completed at most once; when it is
\* ready it was completed exactly once, with a value (never an error of its
\* own), every input is ready, and its i-th element is the i-th input's
\* outcome, value or error.
C28_WhenAllCompletesOnce ==
    /\ agg.completions <= 1
    /\ agg.status = "ready" =>
          /\ agg.completions = 1
          /\ Len(agg.value) = Len(inputs)
          /\ \A i \in DOMAIN inputs :
                InputReady(i) /\ agg.value[i] = inputs[i]

\* C28 witness: the aggregate is ready over at least two inputs, one holding
\* an error and one a value, the first input having completed last.
C28_Witness ==
    /\ agg.status = "ready" /\ Len(inputs) >= 2
    /\ conts[1] = "done" /\ agg.counter = 0
    /\ \E i, j \in DOMAIN inputs : inputs[i] \in Errors /\ inputs[j] \in Values

\* C29: the aggregate of when_any is completed at most once, whatever the
\* number of inputs that become ready together, and when it is ready the
\* input at the reported index is ready, in the inputs and in the collection
\* the aggregate holds.
C29_WhenAnyCompletesOnce ==
    /\ agg.completions <= 1
    /\ Cardinality({i \in DOMAIN conts : conts[i] = "won"}) <= 1
    /\ agg.status = "ready" =>
          /\ agg.completions = 1
          /\ agg.index \in DOMAIN inputs
          /\ InputReady(agg.index)
          /\ agg.value[agg.index] = inputs[agg.index]

\* C29 witness: the aggregate is ready, completed by one continuation, after
\* the continuation of another ready input lost the CAS.
C29_Witness ==
    /\ agg.status = "ready" /\ agg.completions = 1
    /\ \E i \in DOMAIN inputs : i # agg.index /\ conts[i] = "lost" /\ InputReady(i)

\* C30: the destructor of a stoppable state requests the stop in its first
\* step, whatever the status, and that step changes neither the status nor
\* the outcome; the storage of a stoppable state is released only after the
\* stop was requested.
C30_StopBeforeRelease ==
    [][/\ \A t \in Threads :
            (pc[t] = "idle" /\ pc'[t] = "d_members") =>
               /\ is_stoppable => stop_requested'
               /\ UNCHANGED <<status_, storage, except_, released>>
       /\ (is_stoppable /\ released') => stop_requested
       /\ (stop_requested' /\ ~stop_requested)
             => UNCHANGED <<status_, storage, except_>>]_vars

\* C30 witness: a stoppable state whose task was still running (a timed wait
\* had given up) has been destroyed: the stop was requested and the storage
\* is released.
C30_Witness ==
    /\ is_stoppable /\ stop_requested /\ released
    /\ status_ = "launched" /\ storage = "empty" /\ except_ = "null"

\* C31: the task of a deferred continuation state is not launched, submitted
\* or run while its parent is not Ready: each step that launches it (from
\* wait_impl or from notify_when_ready) is taken with the parent Ready.
C31_ParentReadyBeforeTask ==
    /\ (launches > 0 \/ posted \/ task_runs > 0) => before_ = "ready"
    /\ before_ = "pending" => (is_deferred_ /\ task_out = "none")

\* C31 witness: a notify_when_ready launched the task of a continuation state
\* and the task ran, the parent being Ready.
C31_Witness ==
    /\ before_ = "ready" /\ launches = 1 /\ task_runs = 1
    /\ launched_by = "notify_when_ready"
    /\ is_ready

\* C32: no wakeup is lost: a thread blocked in wait() on a state that has
\* been completed goes on to return, also when another thread's timed wait
\* gave up (status back to Launched) before the completion.
C32_NoLostWakeup ==
    \A t \in Threads :
        (pc[t] = "w_blocked" /\ op[t] = "wait" /\ is_ready) ~> (pc[t] # "w_blocked")

\* C33: a notify_when_ready that launches the task of a Deferred state inline
\* does not get stuck on the waiter mutex it holds, and when it returns after
\* the task has stored its outcome, the status it leaves is Ready.
C33_NotifyInlineReturnsReady ==
    [][\A t \in Threads :
          (op[t] = "notify_when_ready" /\ inline_task) =>
             /\ pc'[t] # "hung"
             /\ (pc[t] = "n_after" /\ pc'[t] = "idle"
                   /\ (storage # "empty" \/ except_ # "null"))
                  => (ret'[t] = "handle" /\ status_' = "ready")]_vars

\* A push called from the body of a running continuation, on the list that
\* runs it.
InnerPush(t) == ret_to[t] \in {"rr_drain", "rr_redrain"}

\* C34: a continuation that, while request_run runs it (in the lock-free loop
\* or in the loop under continuations_mutex_), pushes a callable onto the same
\* list does not deadlock: the thread is never stopped at the lock of push,
\* the push takes the execute path (it returns false), and the callable is run
\* once by the executor when everything has finished.
C34_ReentrantPush ==
    /\ \A t \in AllThreads :
          /\ pc[t] # "hung"
          /\ ~(pc[t] = "p_lock" /\ continuations_mutex_ = t)
          /\ InnerPush(t) => pc[t] # "p_push"
    /\ ran[Child] <= 1
    /\ (AllIdle /\ exec_q = {} /\ \E f \in Reentrant : ran[f] > 0) => ran[Child] = 1

\* C35: a wait_for / wait_until on a deferred continuation state always
\* returns, also when the parent never becomes ready: the timed wait does not
\* stay inside wait_for_parent with the waiter mutex held.
C35_TimedWaitReturns ==
    \A t \in Threads :
        (op[t] = "wait_for" /\ pc[t] # "idle") ~> (pc[t] = "idle")

\* C36: signal_promise_destroyed never raises an exception, also when a
\* set_value / set_exception completes the state between its unlocked
\* is_ready check and its locked mark_exception; the outcome the setter wrote
\* is kept.
C36_SignalPromiseDestroyedNoThrow ==
    [][\A t \in Threads :
          op[t] = "signal_promise_destroyed" =>
             /\ ret'[t] # "promise_already_satisfied"
             /\ (pc[t] = "spd_mark" /\ pc'[t] # "spd_mark" /\ is_ready)
                  => (storage' = storage /\ except_' = except_)]_vars

\* C37: unnotify_when_ready(h) removes exactly the external condition variable
\* registered by the notify_when_ready call that returned h and leaves every
\* other registration in place, whatever notify / unnotify calls were made
\* between obtaining h and using it.
C37_UnnotifyRemovesOwn ==
    [][\A t \in AllThreads :
          (handle[t] # 0 /\ handle'[t] = 0) =>
             \E i \in DOMAIN external_waiters_ :
                /\ external_waiters_[i] = t
                /\ external_waiters_' = Erase(external_waiters_, i)]_vars

\* C38: callables recorded in a continuation list are not dropped when
\* request_run was never called (every operation so far was a push): the
\* destructor of the continuation state runs them, each exactly once, and no
\* callable runs twice, so what an earlier successful request_run has run is
\* not run again at destruction.
C38_DestructorRunsRecorded ==
    /\ \A f \in Fns : ran[f] <= 1
    /\ (destroyed /\ AllIdle /\ ops = Cardinality(pushed)) =>
          /\ continuations_ = <<>>
          /\ exec_q = {}
          /\ \A f \in pushed : ran[f] = 1

\* Callables were recorded, request_run was never called by a thread, and the
\* destructor has run them.
C38_Witness ==
    /\ destroyed /\ AllIdle
    /\ pushed # {} /\ ops = Cardinality(pushed)
    /\ exec_q = {}
    /\ \A f \in pushed : ran[f] = 1

C39_ChainCallsReturn ==
    <>[](\A t \in ChainThreads : chain.stack[t] = <<>>)

====
